---------------------------- MODULE Spec2Model ----------------------------
(***************************************************************************)
(* Verification model of the paper-companion RAG core:                     *)
(*   - RagProcessor (processor/rag_processor.py): tree restructuring,      *)
(*     key_map generation, path resolution, markdown projection;           *)
(*   - RagRetriever (rag_retriever.py): retrieve_with_context and helpers. *)
(*                                                                         *)
(* Representation of Python values                                         *)
(*   dict            a TLA+ record/function; .get(k, d) is Get(d, k, dflt) *)
(*   list            a sequence (index i of Python is i+1 here)            *)
(*   text string     a sequence of "/"-separated components; the empty     *)
(*                   string is <<"">> (what "".split("/") yields)          *)
(*   path string     a sequence of one-character strings, e.g.             *)
(*                   "/sections/10" is <<"/","s",...,"s","/","1","0">>     *)
(*   a JSON scalar in a content list is the record [scalar |-> v]          *)
(***************************************************************************)
EXTENDS Integers, Sequences, FiniteSets, TLC

VARIABLES
    paper_data,         \* RagProcessor.process: the JSON read from input_path
    rag_tree,           \* the tree JSON (output_tree_json_path / load_rag_tree)
    prev_tree,          \* the tree written by the previous process run
    runs,               \* number of process runs so far
    markdown,           \* the md_content blocks written to output_md_path
    vector_index,       \* the documents of the index saved at vector_store_path
    loading_thread,     \* VectorLoadingThread: "running" or "finished"
    paper_vector_paths, \* RagRetriever.paper_vector_paths
    vector_stores,      \* RagRetriever.vector_stores
    load_count,         \* FAISS.load_local calls that returned a store
    docs_with_scores,   \* retrieve_with_context: hits of the similarity search
    section_paths,      \* retrieve_with_context: paths of the mapped hits
    retrieved_sections, \* retrieve_with_context: keys of the dict path -> node
    sorted_paths,       \* retrieve_with_context: sorted(retrieved_sections)
    result,             \* retrieve_with_context: first component returned
    scroll_info,        \* retrieve_with_context: second component returned
    returned,           \* retrieve_with_context: the return statement taken
    data,               \* TilingProcessor.process: the JSON read from input_path
    similarities,       \* what the embedding model makes of adjacent windows
    merged_content,     \* _process_content: content after line 96, per section
    output_data,        \* TilingProcessor.process: the JSON written to output_path
    tiling,             \* TilingProcessor.process: "idle", "done" or "raised"
    stages,             \* Pipeline.stages
    online_mode,        \* Pipeline.online_mode
    disk,               \* the output files that exist in the paper directory
    stage_pos,          \* Pipeline.process: position of the loop over stages
    output_paths,       \* Pipeline.process: output_paths
    stage_log,          \* Pipeline.process: what the loop did with each stage
    pipeline,           \* Pipeline.process: "idle", "running", "returned", "raised"
    tt_elements,        \* _texttiling: elements
    tt_split_mode,      \* _texttiling: split_mode
    tt_depth_scores,    \* _texttiling: depth_scores
    tt_potential_boundaries, \* _texttiling: potential_boundaries
    tt_start,           \* _texttiling: start of the segment loop
    tt_segments,        \* _texttiling: segments
    tt_boundaries,      \* the values _find_optimal_boundary returned to the loop
    tt_state,           \* _texttiling: "idle", "loop", "merged" or "returned"
    processing_queue,   \* DataManager.processing_queue: the items waiting, as [id, status]
    is_processing,      \* DataManager.is_processing
    is_paused,          \* DataManager.is_paused
    current_thread,     \* the paper of DataManager.current_thread, or None
    thread_running,     \* current_thread.isRunning()
    signal,             \* the signals threads emitted that no handler has run for yet
    papers_index        \* DataManager.papers_index: the ids of the papers it lists

vars == <<paper_data, rag_tree, prev_tree, runs, markdown, vector_index, loading_thread,
          paper_vector_paths, vector_stores, load_count, docs_with_scores,
          section_paths, retrieved_sections, sorted_paths,
          result, scroll_info, returned,
          data, similarities, merged_content, output_data, tiling,
          stages, online_mode, disk, stage_pos, output_paths, stage_log, pipeline,
          tt_elements, tt_split_mode, tt_depth_scores, tt_potential_boundaries,
          tt_start, tt_segments, tt_boundaries, tt_state,
          processing_queue, is_processing, is_paused, current_thread, thread_running, signal,
          papers_index>>

procVars == <<paper_data, rag_tree, prev_tree, runs, markdown>>
loadVars == <<vector_index, loading_thread, paper_vector_paths, vector_stores,
              load_count>>
callVars == <<docs_with_scores, section_paths, retrieved_sections,
              sorted_paths, result, scroll_info, returned>>
tileVars == <<data, similarities, merged_content, output_data, tiling>>
pipeVars == <<stages, online_mode, disk, stage_pos, output_paths, stage_log,
              pipeline>>
queueVars == <<processing_queue, is_processing, is_paused, current_thread, thread_running,
               signal, papers_index>>
segVars == <<tt_elements, tt_split_mode, tt_depth_scores, tt_potential_boundaries,
             tt_start, tt_segments, tt_boundaries, tt_state>>

-----------------------------------------------------------------------------
(* Bounds of the model *)

MaxSections == 11   \* top-level sections of a wide document
MaxContent  == 3    \* content items of the varied section
MaxDepth    == 3    \* nesting depth of a deep document
MaxRuns     == 2    \* process runs chained on their own output
MaxHits     == 2    \* hits returned by one similarity search
MaxBlocks   == 4    \* blocks of a section's content given to the tiling
MaxElements == 7    \* sentences or paragraphs of one large text block
MaxLoads    == 2    \* add_paper calls that load a vector store
MaxSentences == 12  \* sentences of a text block of many short sentences
MaxPapers    == 3    \* papers a user can upload
MaxCalls     == 2    \* calls of Pipeline.process on one paper

-----------------------------------------------------------------------------
(* Python values *)

\* None where a string is expected
None == "None"

\* None or {} where a dict is expected
Empty == <<>>

\* the empty text string
ES == <<"">>

\* dict.get(k, default)
Get(d, k, default) == IF k \in DOMAIN d THEN d[k] ELSE default

\* isinstance(item, dict) for the elements of a content list
IsDict(item) == "scalar" \notin DOMAIN item

Range(s) == {s[i] : i \in 1..Len(s)}

Digits == <<"0", "1", "2", "3", "4", "5", "6", "7", "8", "9">>

\* characters of path strings, in code-point order
Alphabet == <<"/", "0", "1", "2", "3", "4", "5", "6", "7", "8", "9",
              "c", "d", "e", "h", "i", "l", "n", "o", "r", "s", "t">>

Ord(c) == CHOOSE i \in 1..Len(Alphabet) : Alphabet[i] = c

IsDigitChar(c) == \E i \in 1..Len(Digits) : Digits[i] = c

DigitVal(c) == (CHOOSE i \in 1..Len(Digits) : Digits[i] = c) - 1

\* str(n) / f"{n}" of a non-negative int
RECURSIVE Str(_)
Str(n) == IF n < 10 THEN <<Digits[n + 1]>>
          ELSE Str(n \div 10) \o <<Digits[(n % 10) + 1]>>

\* int(s) of a digit string
RECURSIVE ParseInt(_)
ParseInt(s) == IF Len(s) = 0 THEN 0
          ELSE ParseInt(SubSeq(s, 1, Len(s) - 1)) * 10 + DigitVal(s[Len(s)])

\* str.isdigit()
IsDigit(s) == Len(s) > 0 /\ \A i \in 1..Len(s) : IsDigitChar(s[i])

\* s.split("/")
RECURSIVE Split(_)
Split(s) ==
    IF \A i \in 1..Len(s) : s[i] # "/" THEN <<s>>
    ELSE LET k == CHOOSE i \in 1..Len(s) :
                     s[i] = "/" /\ \A j \in 1..(i - 1) : s[j] # "/"
         IN <<SubSeq(s, 1, k - 1)>> \o Split(SubSeq(s, k + 1, Len(s)))

\* "/".join(parts)
RECURSIVE Join(_)
Join(parts) == IF Len(parts) = 0 THEN <<>>
               ELSE IF Len(parts) = 1 THEN parts[1]
               ELSE parts[1] \o <<"/">> \o Join(Tail(parts))

\* a < b on Python strings (code-point lexicographic order)
RECURSIVE StrLess(_, _)
StrLess(a, b) ==
    IF Len(b) = 0 THEN FALSE
    ELSE IF Len(a) = 0 THEN TRUE
    ELSE IF a[1] = b[1] THEN StrLess(Tail(a), Tail(b))
    ELSE Ord(a[1]) < Ord(b[1])

\* json_path.strip("/")
RECURSIVE StripSlashes(_)
StripSlashes(s) ==
    IF Len(s) > 0 /\ s[1] = "/" THEN StripSlashes(Tail(s))
    ELSE IF Len(s) > 0 /\ s[Len(s)] = "/"
         THEN StripSlashes(SubSeq(s, 1, Len(s) - 1))
    ELSE s

\* the dict keys a path component can name
SECTIONS == <<"s", "e", "c", "t", "i", "o", "n", "s">>
CHILDREN == <<"c", "h", "i", "l", "d", "r", "e", "n">>
CONTENT  == <<"c", "o", "n", "t", "e", "n", "t">>

FieldChars(f) == CASE f = "sections" -> SECTIONS
                   [] f = "children" -> CHILDREN
                   [] f = "content"  -> CONTENT
                   [] OTHER          -> <<>>

\* `part in node` for a dict node and a str part
HasField(node, part) == \E f \in DOMAIN node : FieldChars(f) = part /\ part # <<>>

Field(node, part) == node[CHOOSE f \in DOMAIN node : FieldChars(f) = part]

-----------------------------------------------------------------------------
(* RagProcessor: abstract extraction, filtering, restructuring *)

\* "\n".join(texts); the newline is kept as a component of its own
RECURSIVE JoinLines(_)
JoinLines(texts) == IF Len(texts) = 0 THEN ES
                    ELSE IF Len(texts) = 1 THEN texts[1]
                    ELSE texts[1] \o <<"\n">> \o JoinLines(Tail(texts))

IsAbstractText(item) == IsDict(item) /\ Get(item, "type", None) = "text"

_extract_abstract_summary(sections) ==
    IF \E i \in 1..Len(sections) : Get(sections[i], "type", None) = "abstract"
    THEN LET i == CHOOSE k \in 1..Len(sections) :
                      /\ Get(sections[k], "type", None) = "abstract"
                      /\ \A j \in 1..(k - 1) : Get(sections[j], "type", None) # "abstract"
             texts == SelectSeq(Get(sections[i], "content", <<>>), IsAbstractText)
         IN [content |-> JoinLines([k \in 1..Len(texts) |-> Get(texts[k], "content", ES)]),
             translated_content |->
                 JoinLines([k \in 1..Len(texts) |-> Get(texts[k], "translated_content", ES)])]
    ELSE [content |-> ES, translated_content |-> ES]

KeepSection(section) == /\ Get(section, "type", None) # "abstract"
                        /\ Get(section, "type", None) # "references"

_filter_sections(sections) == SelectSeq(sections, KeepSection)

\* the new_item built for one dict item of a content list
RestructureItem(item, content_index) ==
    LET t == Get(item, "type", "") IN
    CASE t = "text" ->
            [type |-> t, index |-> content_index,
             content |-> Get(item, "content", ES),
             translated_content |-> Get(item, "translated_content", ES),
             questions |-> Get(item, "questions", ES)]
      [] t = "figure" ->
            [type |-> t, index |-> content_index,
             src |-> Get(item, "src", ES), alt |-> Get(item, "alt", ES),
             caption |-> Get(item, "caption", ES),
             translated_caption |-> Get(item, "translated_caption", ES),
             questions |-> Get(item, "questions", ES)]
      [] t = "table" ->
            [type |-> t, index |-> content_index,
             content |-> Get(item, "content", ES),
             caption |-> Get(item, "caption", ES),
             translated_caption |-> Get(item, "translated_caption", ES),
             questions |-> Get(item, "questions", ES)]
      [] t = "formula" ->
            [type |-> t, index |-> content_index,
             content |-> Get(item, "content", ES),
             formula_analysis |-> Get(item, "formula_analysis", ES)]
      [] OTHER -> [type |-> t, index |-> content_index]

RestructureContent(content) ==
    LET dicts == SelectSeq(content, IsDict)
    IN [k \in 1..Len(dicts) |-> RestructureItem(dicts[k], k - 1)]

RECURSIVE _restructure_sections(_, _)
_restructure_sections(sections, level) ==
    [i \in 1..Len(sections) |->
        LET section == sections[i] IN
        [title |-> Get(section, "title", ES),
         translated_title |-> Get(section, "translated_title", ES),
         level |-> level,
         summary |-> Get(section, "summary", ES),
         content |-> RestructureContent(Get(section, "content", <<>>)),
         children |-> IF "children" \in DOMAIN section /\ section.children # <<>>
                      THEN _restructure_sections(section.children, level + 1)
                      ELSE <<>>]]

\* a plausible slip: the children level left out of the path
ChildrenJsonPathNoLevel(current_json_path) == current_json_path

\* children_json_path = f"{current_json_path}/children"
ChildrenJsonPath(current_json_path) == current_json_path \o <<"/">> \o CHILDREN

\* the assignments key_map[key] = path in the order the code makes them; `node`
\* records the section or item the loop held when it made the assignment
RECURSIVE KeyMapEntries(_, _, _, _)
KeyMapEntries(sections, title, parent_path, parent_json_path) ==
    LET OfSection(i) ==
            LET section == sections[i]
                section_title == Get(section, "title", ES)
                section_path == IF parent_path # ES THEN parent_path \o section_title
                                ELSE section_title
                current_json_path ==
                    IF parent_json_path = <<>>
                    THEN parent_json_path \o <<"/">> \o SECTIONS \o <<"/">> \o Str(i - 1)
                    ELSE parent_json_path \o <<"/">> \o Str(i - 1)
                section_key == title \o section_path \o <<"section">>
                content == Get(section, "content", <<>>)
                children == Get(section, "children", <<>>)
            IN  <<[key |-> section_key, path |-> current_json_path, node |-> section]>>
                \o [j \in 1..Len(content) |->
                      [key |-> section_key \o <<ToString(j - 1), Get(content[j], "type", "")>>,
                       path |-> current_json_path \o <<"/">> \o CONTENT \o <<"/">> \o Str(j - 1),
                       node |-> content[j]]]
                \o (IF children # <<>>
                    THEN KeyMapEntries(children, title, section_path,
                                       ChildrenJsonPath(current_json_path))
                    ELSE <<>>)
        RECURSIVE Upto(_)
        Upto(n) == IF n = 0 THEN <<>> ELSE Upto(n - 1) \o OfSection(n)
    IN Upto(Len(sections))

\* the dict left by a sequence of assignments: the last one of a key wins
LastOf(entries, key) == CHOOSE i \in 1..Len(entries) :
                            /\ entries[i].key = key
                            /\ \A j \in (i + 1)..Len(entries) : entries[j].key # key

DictOf(entries) == [key \in {entries[i].key : i \in 1..Len(entries)} |->
                        entries[LastOf(entries, key)].path]

_generate_key_map(sections, title) == DictOf(KeyMapEntries(sections, title, ES, <<>>))

_restructure_tree(pd) ==
    LET restructured_sections == _restructure_sections(Get(pd, "sections", <<>>), 1)
        abstract == Get(pd, "abstract", <<>>)
    IN [title |-> Get(pd, "title", ES),
        translated_title |-> Get(pd, "translated_title", ES),
        abstract |-> [content |-> Get(abstract, "content", ES),
                      translated_content |-> Get(abstract, "translated_content", ES)],
        sections |-> restructured_sections,
        key_map |-> _generate_key_map(restructured_sections, Get(pd, "title", ES))]

\* RagProcessor.process up to the tree it writes to output_tree_json_path
ProcessTree(pd) ==
    LET abstract_content == _extract_abstract_summary(Get(pd, "sections", <<>>))
        filled == [abstract |-> [content |-> Get(abstract_content, "content", ES),
                                 translated_content |->
                                     Get(abstract_content, "translated_content", ES)],
                   sections |-> _filter_sections(Get(pd, "sections", <<>>))] @@ pd
    IN _restructure_tree(filled)

-----------------------------------------------------------------------------
(* Path resolution *)

NotFound == [kind |-> "none", val |-> <<>>]

ElemKind(x) == IF IsDict(x) THEN "dict" ELSE "scalar"

\* RagProcessor._get_node_by_json_path: the loop over keys
RECURSIVE WalkJsonPath(_, _, _)
WalkJsonPath(node, kind, keys) ==
    IF Len(keys) = 0 THEN [kind |-> kind, val |-> node]
    ELSE LET key == keys[1] IN
         IF kind = "list"
         THEN IF IsDigit(key) /\ ParseInt(key) < Len(node)
              THEN WalkJsonPath(node[ParseInt(key) + 1], ElemKind(node[ParseInt(key) + 1]), Tail(keys))
              ELSE NotFound
         ELSE IF kind = "dict"
         THEN IF HasField(node, key)
              THEN WalkJsonPath(Field(node, key), "list", Tail(keys))
              ELSE NotFound
         ELSE NotFound

_get_node_by_json_path(json_path, json_data) ==
    IF json_path = <<>> THEN NotFound
    ELSE WalkJsonPath(json_data, "dict", Split(StripSlashes(json_path)))

\* RagRetriever._get_node_from_path: the loop over parts; {} is NotFound
RECURSIVE WalkPath(_, _, _)
WalkPath(node, kind, parts) ==
    IF Len(parts) = 0 THEN [kind |-> kind, val |-> node]
    ELSE LET part == parts[1] IN
         IF kind = "dict" /\ ~IsDigit(part) /\ HasField(node, part)
         THEN WalkPath(Field(node, part), "list", Tail(parts))
         ELSE IF kind = "list" /\ IsDigit(part) /\ ParseInt(part) < Len(node)
         THEN WalkPath(node[ParseInt(part) + 1], ElemKind(node[ParseInt(part) + 1]), Tail(parts))
         ELSE NotFound

_get_node_from_path(tree, path) ==
    WalkPath(tree, "dict",
             Split(IF Len(path) > 0 /\ path[1] = "/" THEN Tail(path) ELSE path))

\* `if node:` / `if not node:` on what a resolver returned
Truthy(found) == found.kind # "none" /\ found.val # <<>>

-----------------------------------------------------------------------------
(* RagProcessor: markdown projection and the index built from it *)

\* `"/section" in key`, for keys whose components do not merely begin with
\* the word "section"
HasSectionMark(key) == \E i \in 2..Len(key) : key[i] = "section"

\* the translation alone, without the fallback to the original
OrElseTranslatedOnly(node, a, b) == Get(node, a, ES)

\* translated-or-original: node.get(a, "") or, when that is empty, node.get(b, "")
OrElse(node, a, b) == IF Get(node, a, ES) # ES THEN Get(node, a, ES) ELSE Get(node, b, ES)

\* _generate_md_content: the header and the lines of the body; "" is Empty
_generate_md_content(node, key) ==
    LET t == Get(node, "type", None)
        questions == Get(node, "questions", ES)
        content == OrElse(node, "translated_content", "content")
        caption == OrElse(node, "translated_caption", "caption")
        formula_content == Get(node, "content", ES)
        formula_analysis == Get(node, "formula_analysis", ES)
        title == Get(node, "title", ES)
        translated_title == Get(node, "translated_title", ES)
        summary == Get(node, "summary", ES)
    IN IF "summary" \in DOMAIN node /\ HasSectionMark(key)
       THEN [header |-> key, body |-> <<summary>>]
       ELSE IF t = "text" /\ (questions # ES \/ content # ES)
       THEN [header |-> key, body |-> <<questions, content>>]
       ELSE IF t = "figure" /\ (questions # ES \/ caption # ES)
       THEN [header |-> key, body |-> <<questions, caption>>]
       ELSE IF t = "table" /\ (questions # ES \/ caption # ES)
       THEN [header |-> key, body |-> <<questions, caption>>]
       ELSE IF t = "formula" /\ (formula_content # ES \/ formula_analysis # ES)
       THEN [header |-> key, body |-> <<formula_content, formula_analysis>>]
       ELSE IF /\ "title" \in DOMAIN node /\ "level" \in DOMAIN node
               /\ (title # ES \/ translated_title # ES \/ summary # ES)
       THEN [header |-> key,
             body |-> <<(IF title # ES THEN <<"**">> \o title \o <<"**">> ELSE <<>>)
                        \o (IF translated_title # ES /\ translated_title # title
                            THEN <<" (">> \o translated_title \o <<")">> ELSE <<>>)>>
                      \o (IF summary # ES THEN <<ES, summary>> ELSE <<>>)]
       ELSE Empty

\* _generate_markdown: the md_content blocks written, one per key_map entry
\* whose path resolves and whose md_content is not empty
_generate_markdown(tree_structure) ==
    LET key_map == Get(tree_structure, "key_map", Empty)
        Block(key) == _generate_md_content(
                          _get_node_by_json_path(key_map[key], tree_structure).val, key)
    IN {Block(key) : key \in {k \in DOMAIN key_map :
            /\ Truthy(_get_node_by_json_path(key_map[k], tree_structure))
            /\ Block(k) # Empty}}

\* _create_vector_store: MarkdownHeaderTextSplitter on ("#", "Header") makes one
\* document per block, its metadata carrying the header
IndexDocsOf(blocks) == {[Header |-> b.header] : b \in blocks}

-----------------------------------------------------------------------------
(* RagRetriever: helpers of retrieve_with_context *)

\* scores are kept in hundredths: 0.6 is 60
ScoreThreshold == 60
LocatorThreshold == 65

\* d[k] = v
Put(d, k, v) == [x \in DOMAIN d \cup {k} |-> IF x = k THEN v ELSE d[x]]

StartsWith(s, prefix) == Len(s) >= Len(prefix) /\ SubSeq(s, 1, Len(prefix)) = prefix

\* a plausible slip: the threshold itself let through
SurvivesAtThreshold(doc) == doc.score >= ScoreThreshold

\* the test of the filter: score > 0.6
Survives(doc) == doc.score > ScoreThreshold

\* a plausible slip: the locator produced at the threshold itself
ScrollAllowedAtThreshold(first_doc_score) == first_doc_score >= LocatorThreshold

\* first_doc_score > 0.65
ScrollAllowed(first_doc_score) == first_doc_score > LocatorThreshold

\* a plausible slip: the "- 1" left out
PrevIndexSame(current_index) == current_index

\* current_index - 1 of prev_path
PrevIndex(current_index) == current_index - 1

\* a plausible slip: the block after the next one
NextIndexSkips(current_index) == current_index + 2

\* current_index + 1 of next_path
NextIndex(current_index) == current_index + 1

\* filtered_docs
FilteredDocs(docs) == SelectSeq(docs, Survives)

\* a plausible slip: the comparison of a distance, low scores let through
ScoreBelow(doc, threshold) == doc.score < threshold

\* the comparison of the filter, for a threshold other than 0.6
ScoreAbove(doc, threshold) == doc.score > threshold

\* the positions of docs the filter lets through at the threshold
SurvivorsAt(docs, threshold) == {i \in 1..Len(docs) : ScoreAbove(docs[i], threshold)}

\* filtered_docs at the threshold
FilteredAt(docs, threshold) ==
    LET Test(doc) == ScoreAbove(doc, threshold) IN SelectSeq(docs, Test)

\* section_paths: the key_map paths of the hits whose Header is a key of key_map
RECURSIVE SectionPaths(_, _)
SectionPaths(filtered_docs, tree) ==
    IF filtered_docs = <<>> THEN <<>>
    ELSE LET doc == Head(filtered_docs)
             key_map == Get(tree, "key_map", Empty)
         IN (IF "Header" \in DOMAIN doc.metadata /\ doc.metadata.Header \in DOMAIN key_map
             THEN <<key_map[doc.metadata.Header]>> ELSE <<>>)
            \o SectionPaths(Tail(filtered_docs), tree)

\* node.get('type') == 'formula' on what _get_node_from_path returned
IsFormula(found) == found.kind = "dict" /\ Get(found.val, "type", None) = "formula"

\* .get raises on a node that is not a dict
GetRaises(found) == found.kind \notin {"dict", "none"}

_add_adjacent_formulas(tree, path, retrieved) ==
    IF path = <<>> \/ path[1] # "/" THEN retrieved
    ELSE LET parts == Split(path) IN
         IF Len(parts) >= 5 /\ parts[Len(parts) - 1] = CONTENT
         THEN IF ~IsDigit(parts[Len(parts)]) THEN retrieved
              ELSE LET current_index == ParseInt(parts[Len(parts)])
                       base_path == Join(SubSeq(parts, 1, Len(parts) - 1))
                       prev_path == base_path \o <<"/">> \o Str(PrevIndex(current_index))
                       prev_node == _get_node_from_path(tree, prev_path)
                       next_path == base_path \o <<"/">> \o Str(NextIndex(current_index))
                       next_node == _get_node_from_path(tree, next_path)
                       with_prev == IF current_index > 0 /\ IsFormula(prev_node)
                                    THEN Put(retrieved, prev_path, prev_node.val)
                                    ELSE retrieved
                   IN IF current_index > 0 /\ GetRaises(prev_node) THEN retrieved
                      ELSE IF Truthy(next_node) /\ GetRaises(next_node) THEN with_prev
                      ELSE IF Truthy(next_node) /\ IsFormula(next_node)
                      THEN Put(with_prev, next_path, next_node.val)
                      ELSE with_prev
         ELSE retrieved

\* a plausible slip: the loop left at the first path that does not resolve
RECURSIVE RetrievedUntilFailure(_, _, _)
RetrievedUntilFailure(tree, paths, retrieved) ==
    IF paths = <<>> THEN retrieved
    ELSE LET path == Head(paths)
             node == _get_node_from_path(tree, path)
         IN IF Truthy(node)
            THEN RetrievedUntilFailure(tree, Tail(paths),
                     _add_adjacent_formulas(tree, path, Put(retrieved, path, node.val)))
            ELSE retrieved

\* the loop that fills retrieved_sections from section_paths
RECURSIVE RetrievedSections(_, _, _)
RetrievedSections(tree, paths, retrieved) ==
    IF paths = <<>> THEN retrieved
    ELSE LET path == Head(paths)
             node == _get_node_from_path(tree, path)
         IN RetrievedSections(tree, Tail(paths),
                IF Truthy(node)
                THEN _add_adjacent_formulas(tree, path, Put(retrieved, path, node.val))
                ELSE retrieved)

SECTIONS_PREFIX == <<"/">> \o SECTIONS \o <<"/">>

_create_scroll_info(path, node, tree) ==
    LET t == Get(node, "type", None) IN
    IF "type" \notin DOMAIN node /\ StartsWith(path, SECTIONS_PREFIX)
    THEN [is_title |-> TRUE,
          zh_content |-> Get(node, "translated_title", ES),
          en_content |-> Get(node, "title", ES),
          node_type |-> "unknown"]
    ELSE [is_title |-> FALSE,
          zh_content |-> CASE t = "text" -> Get(node, "translated_content", ES)
                           [] t \in {"figure", "table"} -> Get(node, "translated_caption", ES)
                           [] t = "formula" -> Get(node, "content", ES)
                           [] OTHER -> ES,
          en_content |-> CASE t = "text" -> Get(node, "content", ES)
                           [] t \in {"figure", "table"} -> Get(node, "caption", ES)
                           [] t = "formula" -> Get(node, "content", ES)
                           [] OTHER -> ES,
          node_type |-> Get(node, "type", "unknown")]

\* the fallback title, the word for "section" followed by the path
PathTitle(path) == <<"section-path">> \o path

_build_section_title(tree, path) ==
    LET parts == Split(IF Len(path) > 0 /\ path[1] = "/" THEN Tail(path) ELSE path) IN
    IF Len(parts) >= 2 /\ parts[1] = SECTIONS
    THEN IF ~IsDigit(parts[2]) THEN PathTitle(Join(parts))
         ELSE LET section_index == ParseInt(parts[2]) IN
              IF "sections" \in DOMAIN tree /\ section_index < Len(tree.sections)
              THEN LET section == tree.sections[section_index + 1]
                       title == OrElse(section, "translated_title", "title")
                   IN IF Len(parts) >= 4 /\ parts[3] = CHILDREN
                      THEN IF ~IsDigit(parts[4]) THEN PathTitle(Join(parts))
                           ELSE LET child_index == ParseInt(parts[4]) IN
                                IF /\ "children" \in DOMAIN section
                                   /\ child_index < Len(section.children)
                                   /\ OrElse(section.children[child_index + 1],
                                             "translated_title", "title") # ES
                                THEN title \o <<" > ">>
                                     \o OrElse(section.children[child_index + 1],
                                               "translated_title", "title")
                                ELSE title
                      ELSE title
              ELSE PathTitle(Join(parts))
    ELSE PathTitle(Join(parts))

\* a < b on the keys of retrieved_sections; sorted() orders by it
PathLess(a, b) == StrLess(a, b)

\* sorted(retrieved_sections.keys())
RECURSIVE Sorted(_)
Sorted(S) == IF S = {} THEN <<>>
             ELSE LET m == CHOOSE x \in S : \A y \in S \ {x} : PathLess(x, y)
                  IN <<m>> \o Sorted(S \ {m})

\* the result_parts appended for one path; `path` tags the part with its node
NodeParts(tree, path, node) ==
    LET t == Get(node, "type", None)
        caption == OrElse(node, "translated_caption", "caption")
        Part(kind, text) == [kind |-> kind, text |-> text, path |-> path]
    IN <<Part("heading", _build_section_title(tree, path))>>
       \o (CASE t = "text" -> <<Part("text", OrElse(node, "translated_content", "content"))>>
             [] t = "formula" ->
                    <<Part("formula", Get(node, "content", ES))>>
                    \o (IF "formula_analysis" \in DOMAIN node
                        THEN <<Part("analysis", node.formula_analysis)>> ELSE <<>>)
             [] t = "figure" -> IF caption # ES THEN <<Part("figure", caption)>> ELSE <<>>
             [] t = "table" ->
                    (IF Get(node, "content", ES) # ES
                     THEN <<Part("table", node.content)>> ELSE <<>>)
                    \o (IF caption # ES THEN <<Part("caption", caption)>> ELSE <<>>)
             [] OTHER -> IF "summary" \in DOMAIN node
                         THEN <<Part("summary", node.summary)>> ELSE <<>>)

\* result_parts: the introduction, then the parts of every path in order
RECURSIVE ResultParts(_, _, _)
ResultParts(tree, paths, retrieved) ==
    IF paths = <<>> THEN <<>>
    ELSE NodeParts(tree, Head(paths), retrieved[Head(paths)])
         \o ResultParts(tree, Tail(paths), retrieved)

Intro == [kind |-> "intro", text |-> <<"most relevant content:">>, path |-> <<>>]

-----------------------------------------------------------------------------
(* Input documents: the parsed trees RagProcessor.process reads *)

TextItem(id) == [type |-> "text", content |-> <<"en:" \o id>>,
                 translated_content |-> <<"zh:" \o id>>, questions |-> <<"q:" \o id>>]

FigureItem(id) == [type |-> "figure", src |-> <<"img:" \o id>>, alt |-> ES,
                   caption |-> <<"cap:" \o id>>,
                   translated_caption |-> <<"zhcap:" \o id>>, questions |-> <<"q:" \o id>>]

TableItem(id) == [type |-> "table", content |-> <<"tab:" \o id>>,
                  caption |-> <<"cap:" \o id>>,
                  translated_caption |-> <<"zhcap:" \o id>>, questions |-> <<"q:" \o id>>]

FormulaItem(id) == [type |-> "formula", content |-> <<"$$" \o id>>,
                    formula_analysis |-> <<"fa:" \o id>>]

ScalarItem(id) == [scalar |-> id]

\* a text block the parser left without text, questions or translation
EmptyTextItem(id) == [type |-> "text", content |-> ES, translated_content |-> ES,
                      questions |-> ES]

\* a figure without caption, translated caption or questions
EmptyFigureItem(id) == [type |-> "figure", src |-> <<"img:" \o id>>, alt |-> ES,
                        caption |-> ES, translated_caption |-> ES, questions |-> ES]

\* a text block that was neither translated nor given questions
UntranslatedItem(id) == [type |-> "text", content |-> <<"en:" \o id>>,
                         translated_content |-> ES, questions |-> ES]

ItemKinds == {"text", "figure", "table", "formula", "scalar", "other",
              "empty_text", "empty_figure", "untranslated"}

Item(kind, id) == CASE kind = "text"    -> TextItem(id)
                    [] kind = "figure"  -> FigureItem(id)
                    [] kind = "table"   -> TableItem(id)
                    [] kind = "formula" -> FormulaItem(id)
                    [] kind = "scalar"  -> ScalarItem(id)
                    [] kind = "empty_text" -> EmptyTextItem(id)
                    [] kind = "empty_figure" -> EmptyFigureItem(id)
                    [] kind = "untranslated" -> UntranslatedItem(id)
                    [] OTHER            -> [type |-> kind, content |-> <<"x:" \o id>>]

Items(pattern, id) == [j \in 1..Len(pattern) |-> Item(pattern[j], id \o "." \o ToString(j - 1))]

Section(type, name, content, children) ==
    [type |-> type, title |-> <<name>>, translated_title |-> <<"zh:" \o name>>,
     level |-> 0, summary |-> <<"sum:" \o name>>, content |-> content,
     children |-> children]

Doc(sections) == [title |-> <<"T">>, translated_title |-> <<"zh:T">>, sections |-> sections]

Patterns(kinds) == UNION {[1..n -> kinds] : n \in 0..MaxContent}

\* n sections without content
WideDoc(n) == Doc([i \in 1..n |-> Section("section", "S" \o ToString(i - 1), <<>>, <<>>)])

\* one section, its content of the given kinds
RichDoc(pattern) == Doc(<<Section("section", "S0", Items(pattern, "0"), <<>>)>>)

\* a chain of d nested sections, each holding a text and a formula
RECURSIVE Chain(_, _)
Chain(d, name) ==
    Section("section", name, Items(<<"text", "formula">>, name),
            IF d <= 1 THEN <<>> ELSE <<Chain(d - 1, name \o "c")>>)

DeepDoc(d) == Doc(<<Chain(d, "S0"), Section("section", "S1", Items(<<"text">>, "S1"), <<>>)>>)

\* a chain of d nested sections, the innermost holding a text and a formula
RECURSIVE Nest(_, _)
Nest(d, name) ==
    IF d <= 1 THEN Section("section", name, Items(<<"text", "formula">>, name), <<>>)
    ELSE Section("section", name, <<>>, <<Nest(d - 1, name \o "c")>>)

NestedDoc(d) == Doc(<<Nest(d, "S0")>>)

\* an abstract section of k texts and a figure, a body section, references or not
AbstractDoc(k, refs) ==
    Doc(<<Section("abstract", "Abstract",
                  Items([j \in 1..k |-> "text"], "abs") \o <<FigureItem("abs.f")>>, <<>>),
          Section("section", "S0", Items(<<"text">>, "0"), <<>>)>>
        \o (IF refs THEN <<Section("references", "References", Items(<<"text">>, "r"), <<>>)>>
            ELSE <<>>))

\* titles that make keys meet: equal ones, one holding a "/", an empty one
Titles == {<<"A">>, <<"B">>, <<"A", "B">>, ES}

Titled(title, section) == [section EXCEPT !.title = title]

\* two sections, the first with a child, their titles drawn from Titles
TitleDoc(t1, t2, t3) ==
    Doc(<<Titled(t1, Section("section", "x", Items(<<"text">>, "x"),
                             <<Titled(t3, Section("section", "z", Items(<<"text">>, "z"), <<>>))>>)),
          Titled(t2, Section("section", "y", Items(<<"text">>, "y"), <<>>))>>)

ParsedDocs == {WideDoc(n) : n \in 1..MaxSections}
              \cup {TitleDoc(t1, t2, t3) : t1 \in Titles, t2 \in Titles, t3 \in Titles}
              \cup {RichDoc(pattern) : pattern \in Patterns(ItemKinds)}
              \cup {DeepDoc(d) : d \in 1..MaxDepth}
              \cup {AbstractDoc(k, refs) : k \in 0..MaxContent, refs \in BOOLEAN}

-----------------------------------------------------------------------------
(* RagProcessor.process, run on a parsed tree and again on its own output *)

NoCall == /\ docs_with_scores = <<>>
          /\ section_paths = <<>>
          /\ retrieved_sections = Empty
          /\ sorted_paths = <<>>
          /\ result = <<>>
          /\ scroll_info = Empty
          /\ returned = "none"

\* _texttiling not called
NoSegment == /\ tt_elements = <<>>
             /\ tt_split_mode = "sentence"
             /\ tt_depth_scores = <<>>
             /\ tt_potential_boundaries = {}
             /\ tt_start = 0
             /\ tt_segments = <<>>
             /\ tt_boundaries = <<>>
             /\ tt_state = "idle"

\* DataManager._init_processing_queue: the queue as construction leaves it
NoQueue ==
    /\ processing_queue = <<>>
    /\ is_processing = FALSE
    /\ is_paused = TRUE
    /\ current_thread = None
    /\ thread_running = FALSE
    /\ signal = <<>>
    /\ papers_index = {}

\* TilingProcessor.process not called
NoTiling == /\ data = Empty
            /\ similarities = <<>>
            /\ merged_content = <<>>
            /\ output_data = Empty
            /\ tiling = "idle"

\* Pipeline.process not called
NoPipeline == /\ stages = <<>>
              /\ online_mode = FALSE
              /\ disk = {}
              /\ stage_pos = 0
              /\ output_paths = Empty
              /\ stage_log = <<>>
              /\ pipeline = "idle"

InitProcess ==
    /\ paper_data \in ParsedDocs
    /\ rag_tree = Empty
    /\ prev_tree = Empty
    /\ runs = 0
    /\ markdown = {}
    /\ vector_index = {}
    /\ loading_thread = "finished"
    /\ paper_vector_paths = Empty
    /\ vector_stores = Empty
    /\ load_count = 0
    /\ NoCall
    /\ NoTiling
    /\ NoPipeline
    /\ NoSegment
    /\ NoQueue

\* process(input_path, ...) on the parsed tree
Process ==
    /\ runs = 0
    /\ rag_tree' = ProcessTree(paper_data)
    /\ prev_tree' = rag_tree
    /\ runs' = 1
    /\ markdown' = _generate_markdown(rag_tree')
    /\ vector_index' = IndexDocsOf(markdown')
    /\ UNCHANGED paper_data
    /\ UNCHANGED <<loading_thread, paper_vector_paths, vector_stores, load_count>>
    /\ UNCHANGED callVars
    /\ UNCHANGED tileVars
    /\ UNCHANGED pipeVars
    /\ UNCHANGED segVars
    /\ UNCHANGED queueVars

\* process(input_path, ...) with the tree it wrote as the input
ProcessOwnOutput ==
    /\ runs >= 1
    /\ runs < MaxRuns
    /\ paper_data' = rag_tree
    /\ rag_tree' = ProcessTree(rag_tree)
    /\ prev_tree' = rag_tree
    /\ runs' = runs + 1
    /\ markdown' = _generate_markdown(rag_tree')
    /\ vector_index' = IndexDocsOf(markdown')
    /\ UNCHANGED <<loading_thread, paper_vector_paths, vector_stores, load_count>>
    /\ UNCHANGED callVars
    /\ UNCHANGED tileVars
    /\ UNCHANGED pipeVars
    /\ UNCHANGED segVars
    /\ UNCHANGED queueVars

NextProcess == Process \/ ProcessOwnOutput

SpecProcess == InitProcess /\ [][NextProcess]_vars

-----------------------------------------------------------------------------
(* RagRetriever.retrieve_with_context on one paper *)

paper_id == "p1"

\* what papers_index.json gives VectorLoadingThread.run for the paper
LoadedPaths == [p \in {paper_id} |-> "vector_store/p1"]

\* the two thresholds and a score above both
Scores == {60, 65, 70}

UnknownHeader == <<"T", "?">>

\* documents an index can hold besides one per projected block: a chunk
\* without Header metadata, a chunk whose header is no key of the key_map
ExtraDocs == {Empty, [Header |-> UnknownHeader]}

\* the tree file with the last content item of the first section gone, the
\* key_map still naming it
Truncated(tree) ==
    LET first == tree.sections[1]
        cut == [first EXCEPT !.content = SubSeq(first.content, 1, Len(first.content) - 1)]
    IN [tree EXCEPT !.sections = <<cut>> \o Tail(tree.sections)]

RetrievalDocs == {WideDoc(MaxSections)}
                 \cup {RichDoc(pattern) : pattern \in Patterns({"text", "formula"})}
                 \cup {RichDoc(<<kind>>) : kind \in {"figure", "table", "other"}}
                 \cup {NestedDoc(d) : d \in 1..MaxDepth}

\* similarity_search_with_score under MAX_INNER_PRODUCT: at most top_k distinct
\* documents of the index, best score first
HitLists(index) ==
    UNION {{hits \in [1..n -> [metadata : index, score : Scores]] :
               /\ \A i, j \in 1..n : i < j => hits[i].metadata # hits[j].metadata
               /\ \A i \in 1..(n - 1) : hits[i].score >= hits[i + 1].score}
           : n \in 0..MaxHits}

InitRetrieve ==
    /\ \E doc \in RetrievalDocs, stale \in BOOLEAN :
          LET tree == ProcessTree(doc) IN
          /\ paper_data = doc
          /\ markdown = _generate_markdown(tree)
          /\ vector_index = IndexDocsOf(_generate_markdown(tree)) \cup ExtraDocs
          /\ stale => tree.sections[1].content # <<>>
          /\ rag_tree = IF stale THEN Truncated(tree) ELSE tree
    /\ prev_tree = Empty
    /\ runs = 1
    /\ loading_thread = "running"
    /\ paper_vector_paths = Empty
    /\ vector_stores = Empty
    /\ load_count = 0
    /\ NoCall
    /\ NoTiling
    /\ NoPipeline
    /\ NoSegment
    /\ NoQueue

\* VectorLoadingThread.run emits loading_finished; _on_loading_finished
_on_loading_finished ==
    /\ loading_thread = "running"
    /\ returned \notin {"searching"}
    /\ \E paths \in {Empty, LoadedPaths} : paper_vector_paths' = paths
    /\ loading_thread' = "finished"
    /\ UNCHANGED <<vector_index, vector_stores, load_count>>
    /\ UNCHANGED procVars
    /\ UNCHANGED callVars
    /\ UNCHANGED tileVars
    /\ UNCHANGED pipeVars
    /\ UNCHANGED segVars
    /\ UNCHANGED queueVars

\* load_vector_store(vector_store_path) when FAISS.load_local returns a store:
\* a new object, told apart by the serial number of the load
load_vector_store(vector_store_path, serial) ==
    [path |-> vector_store_path, load |-> serial]

\* lines 288-296 and 234-242: the cached store, else the store loaded from the
\* paper's path and put into vector_stores
CachedOrLoaded ==
    IF paper_id \in DOMAIN vector_stores
    THEN vector_stores
    ELSE Put(vector_stores, paper_id,
             load_vector_store(paper_vector_paths[paper_id], load_count + 1))

\* is_ready()
is_ready == paper_vector_paths # Empty

\* a return of ("", None); `line` names the return statement
ReturnsEmpty(line) ==
    /\ docs_with_scores' = <<>>
    /\ section_paths' = <<>>
    /\ retrieved_sections' = Empty
    /\ sorted_paths' = <<>>
    /\ result' = <<>>
    /\ scroll_info' = Empty
    /\ returned' = line

\* the call up to the vector store (lines 280-301): not ready, or the store
\* taken from vector_stores, or loaded from its path and cached
GetVectorStore ==
    /\ returned = "none"
    /\ \/ /\ ~is_ready
          /\ ReturnsEmpty("not_ready")
          /\ UNCHANGED <<vector_stores, load_count>>
       \/ /\ is_ready
          /\ paper_id \notin DOMAIN vector_stores
          /\ ReturnsEmpty("no_vector_store")
          /\ UNCHANGED <<vector_stores, load_count>>
       \/ /\ is_ready
          /\ paper_id \in DOMAIN vector_stores \/ paper_id \in DOMAIN paper_vector_paths
          /\ vector_stores' = CachedOrLoaded
          /\ load_count' = IF paper_id \in DOMAIN vector_stores
                            THEN load_count ELSE load_count + 1
          /\ returned' = "searching"
          /\ UNCHANGED <<docs_with_scores, section_paths, retrieved_sections,
                         sorted_paths, result, scroll_info>>
    /\ UNCHANGED <<vector_index, loading_thread, paper_vector_paths>>
    /\ UNCHANGED procVars
    /\ UNCHANGED tileVars
    /\ UNCHANGED pipeVars
    /\ UNCHANGED segVars
    /\ UNCHANGED queueVars

\* the call from load_rag_tree on (lines 303-406), when no rag_tree is loaded
\* or the similarity search raises
RetrieveFails ==
    /\ returned = "searching"
    /\ \E line \in {"no_rag_tree", "search_error"} : ReturnsEmpty(line)
    /\ UNCHANGED loadVars
    /\ UNCHANGED procVars
    /\ UNCHANGED tileVars
    /\ UNCHANGED pipeVars
    /\ UNCHANGED segVars
    /\ UNCHANGED queueVars

\* the call from load_rag_tree on (lines 303-406), the search returning hits
RetrieveWithContext ==
    /\ returned = "searching"
    /\ \E hits \in HitLists(vector_index) :
          LET filtered_docs == FilteredDocs(hits)
              first_doc_score == filtered_docs[1].score
              paths == SectionPaths(filtered_docs, rag_tree)
              retrieved == RetrievedSections(rag_tree, paths, Empty)
              first_path == paths[1]
              raises == \E path \in DOMAIN retrieved :
                            _get_node_from_path(rag_tree, path).kind # "dict"
              sorted == Sorted(DOMAIN retrieved)
          IN /\ docs_with_scores' = hits
             /\ IF filtered_docs = <<>>
                THEN /\ section_paths' = <<>>
                     /\ retrieved_sections' = Empty
                     /\ sorted_paths' = <<>>
                     /\ result' = <<>>
                     /\ scroll_info' = Empty
                     /\ returned' = "no_hits"
                ELSE IF paths = <<>>
                THEN /\ section_paths' = <<>>
                     /\ retrieved_sections' = Empty
                     /\ sorted_paths' = <<>>
                     /\ result' = <<>>
                     /\ scroll_info' = Empty
                     /\ returned' = "no_paths"
                ELSE IF raises
                THEN /\ section_paths' = paths
                     /\ retrieved_sections' = retrieved
                     /\ sorted_paths' = <<>>
                     /\ result' = <<>>
                     /\ scroll_info' = Empty
                     /\ returned' = "exception"
                ELSE /\ section_paths' = paths
                     /\ retrieved_sections' = retrieved
                     /\ sorted_paths' = sorted
                     /\ result' = <<Intro>> \o ResultParts(rag_tree, sorted, retrieved)
                     /\ scroll_info' =
                            IF /\ ScrollAllowed(first_doc_score)
                               /\ first_path \in DOMAIN retrieved
                               /\ retrieved[first_path] # Empty
                            THEN _create_scroll_info(first_path, retrieved[first_path], rag_tree)
                            ELSE Empty
                     /\ returned' = "result"
    /\ UNCHANGED loadVars
    /\ UNCHANGED procVars
    /\ UNCHANGED tileVars
    /\ UNCHANGED pipeVars
    /\ UNCHANGED segVars
    /\ UNCHANGED queueVars

\* the caller takes the returned pair; the call is over
TakeResult ==
    /\ returned \notin {"none", "searching"}
    /\ docs_with_scores' = <<>>
    /\ section_paths' = <<>>
    /\ retrieved_sections' = Empty
    /\ sorted_paths' = <<>>
    /\ result' = <<>>
    /\ scroll_info' = Empty
    /\ returned' = "none"
    /\ UNCHANGED loadVars
    /\ UNCHANGED procVars
    /\ UNCHANGED tileVars
    /\ UNCHANGED pipeVars
    /\ UNCHANGED segVars
    /\ UNCHANGED queueVars

NextRetrieve == \/ _on_loading_finished
                \/ GetVectorStore
                \/ RetrieveFails
                \/ RetrieveWithContext
                \/ TakeResult

SpecRetrieve == InitRetrieve /\ [][NextRetrieve]_vars

-----------------------------------------------------------------------------
(* Claims on the restructured tree *)

TreeEntries(tree) == KeyMapEntries(tree.sections, tree.title, ES, <<>>)

\* the node the last assignment of `key` was made for
RegisteredNode(tree, key) ==
    LET entries == TreeEntries(tree) IN entries[LastOf(entries, key)].node

\* C9: every (key, path) of the key_map of a tree written by process resolves,
\* with _get_node_by_json_path and with _get_node_from_path, to a non-empty
\* node, and that node is the section or content item the key was registered for
KeyMapSound ==
    rag_tree # Empty =>
        \A key \in DOMAIN rag_tree.key_map :
            LET path == rag_tree.key_map[key]
                a == _get_node_by_json_path(path, rag_tree)
                b == _get_node_from_path(rag_tree, path)
            IN /\ Truthy(a) /\ a.val = RegisteredNode(rag_tree, key)
               /\ Truthy(b) /\ b.val = RegisteredNode(rag_tree, key)

\* a tree with sections nested three deep has been written, its key_map
\* holding the content item of the innermost section
KeyMapSoundWitness ==
    /\ rag_tree # Empty
    /\ \E key \in DOMAIN rag_tree.key_map :
          rag_tree.key_map[key]
              = <<"/">> \o SECTIONS \o <<"/", "0", "/">> \o CHILDREN \o <<"/", "0", "/">>
                \o CHILDREN \o <<"/", "0", "/">> \o CONTENT \o <<"/", "1">>

\* C10 (as claimed): process applied to its own output writes the same tree
\* (title, translated_title, abstract, sections, key_map) again
RestructureIdempotent == runs >= 2 => rag_tree = prev_tree

\* what does hold of the second run: everything but the abstract is kept
RestructureKeepsSections ==
    runs >= 2 => /\ rag_tree.sections = prev_tree.sections
                 /\ rag_tree.key_map = prev_tree.key_map
                 /\ rag_tree.title = prev_tree.title
                 /\ rag_tree.translated_title = prev_tree.translated_title

-----------------------------------------------------------------------------
(* Claims on retrieve_with_context *)

CallDone == returned \notin {"none", "searching"}

Hits == {docs_with_scores[i] : i \in 1..Len(docs_with_scores)}

\* the hits with score > 0.6
Kept == {d \in Hits : d.score > ScoreThreshold}

MaxKeptScore == CHOOSE s \in {d.score : d \in Kept} : \A d \in Kept : d.score <= s

\* the hit names a key of the key_map
HitKeyed(d) == /\ "Header" \in DOMAIN d.metadata
               /\ d.metadata.Header \in DOMAIN rag_tree.key_map

HitPath(d) == rag_tree.key_map[d.metadata.Header]

Resolves(path) == Truthy(_get_node_by_json_path(path, rag_tree))

NodeAt(path) == _get_node_by_json_path(path, rag_tree).val

\* the paths of the nodes rendered in the result, in the order of their headings
Headings == SelectSeq(result, LAMBDA part : part.kind = "heading")

ResultPaths == {Headings[k].path : k \in 1..Len(Headings)}

\* p and q are content items next to each other in one section
Siblings(p, q) ==
    LET a == Split(p)
        b == Split(q)
    IN /\ Len(a) = Len(b)
       /\ Len(a) >= 2
       /\ SubSeq(a, 1, Len(a) - 1) = SubSeq(b, 1, Len(b) - 1)
       /\ a[Len(a) - 1] = CONTENT
       /\ IsDigit(a[Len(a)]) /\ IsDigit(b[Len(b)])
       /\ \/ ParseInt(a[Len(a)]) = ParseInt(b[Len(b)]) + 1
          \/ ParseInt(b[Len(b)]) = ParseInt(a[Len(a)]) + 1

\* path a comes before path b in the document: the first component in which
\* they differ is an index, smaller in a as an integer, or a is the node b is in
RECURSIVE ComesBefore(_, _)
ComesBefore(a, b) ==
    IF a = <<>> THEN b # <<>>
    ELSE IF b = <<>> THEN FALSE
    ELSE IF a[1] = b[1] THEN ComesBefore(Tail(a), Tail(b))
    ELSE IsDigit(a[1]) /\ IsDigit(b[1]) /\ ParseInt(a[1]) < ParseInt(b[1])

\* C1 (as claimed): the nodes of the result are rendered in document order,
\* their indices compared as integers, whatever the number of siblings
ResultInDocumentOrder ==
    returned = "result" =>
        \A i, j \in 1..Len(Headings) :
            i < j => ~ComesBefore(Split(Headings[j].path), Split(Headings[i].path))

\* C2: every node rendered in the result is the node of a hit with score > 0.6
\* or a formula next to such a node, and a scroll locator is made of the node
\* of a hit with score > 0.6: a hit at or below 0.6 puts nothing in the result
LowHitsDiscarded ==
    returned = "result" =>
        /\ \A p \in ResultPaths :
              \E d \in Kept :
                 /\ HitKeyed(d)
                 /\ \/ HitPath(d) = p
                    \/ Siblings(HitPath(d), p) /\ Get(NodeAt(p), "type", None) = "formula"
        /\ scroll_info # Empty =>
              \E d \in Kept :
                 /\ HitKeyed(d)
                 /\ Resolves(HitPath(d))
                 /\ scroll_info = _create_scroll_info(HitPath(d), NodeAt(HitPath(d)), rag_tree)

\* a hit at or below 0.6 whose node resolves stays out of the result, which
\* holds the node of a hit at 0.7 and comes with a scroll locator
LowHitsDiscardedWitness ==
    /\ returned = "result"
    /\ scroll_info # Empty
    /\ \E d \in Hits \ Kept :
          HitKeyed(d) /\ Resolves(HitPath(d)) /\ HitPath(d) \notin ResultPaths
    /\ \E d \in Kept : HitKeyed(d) /\ d.score = 70 /\ HitPath(d) \in ResultPaths

\* C3: a scroll locator is returned only if the best surviving hit scores
\* above 0.65; with the best surviving hit in (0.6, 0.65] and its node resolving
\* the result is not empty and there is no scroll locator
LocatorNeedsHighScore ==
    CallDone =>
        /\ scroll_info # Empty => Kept # {} /\ MaxKeptScore > LocatorThreshold
        /\ ( /\ Kept # {}
             /\ MaxKeptScore <= LocatorThreshold
             /\ \E d \in Kept : d.score = MaxKeptScore /\ HitKeyed(d) /\ Resolves(HitPath(d)) )
           => result # <<>> /\ scroll_info = Empty

\* the best surviving hit scores 0.65, its node is rendered, no locator is made
LocatorNeedsHighScoreWitness ==
    /\ returned = "result"
    /\ Kept # {}
    /\ MaxKeptScore = LocatorThreshold
    /\ \E d \in Kept : HitKeyed(d) /\ HitPath(d) \in ResultPaths
    /\ scroll_info = Empty

\* C4 (as claimed): a scroll locator is made of the node of the best surviving
\* hit, never of the node of a hit with a lower score
LocatorOfBestHit ==
    scroll_info # Empty =>
        \E d \in Kept :
           /\ d.score = MaxKeptScore
           /\ HitKeyed(d)
           /\ Resolves(HitPath(d))
           /\ scroll_info = _create_scroll_info(HitPath(d), NodeAt(HitPath(d)), rag_tree)

\* the content list a content path points into, and the index it names
ContentListOf(p) ==
    LET a == Split(p) IN _get_node_by_json_path(Join(SubSeq(a, 1, Len(a) - 1)), rag_tree).val

ContentIndexOf(p) == LET a == Split(p) IN ParseInt(a[Len(a)])

IsContentPath(p) == LET a == Split(p) IN Len(a) >= 2 /\ a[Len(a) - 1] = CONTENT

SiblingPath(p, k) ==
    LET a == Split(p) IN Join(SubSeq(a, 1, Len(a) - 1)) \o <<"/">> \o Str(k)

\* the formulas that the content item at p has right before and right after it
FormulasNextTo(p) ==
    {SiblingPath(p, k) : k \in {k \in {ContentIndexOf(p) - 1, ContentIndexOf(p) + 1} :
        /\ k >= 0
        /\ k < Len(ContentListOf(p))
        /\ Get(ContentListOf(p)[k + 1], "type", None) = "formula"}}

\* C5: for every content node resolved from a surviving hit, the formula at
\* the index right before it and the formula at the index right after it are
\* rendered in the result
AdjacentFormulasIncluded ==
    returned = "result" =>
        \A d \in Kept :
            (HitKeyed(d) /\ Resolves(HitPath(d)) /\ IsContentPath(HitPath(d))) =>
                \A f \in FormulasNextTo(HitPath(d)) :
                    /\ f \in DOMAIN retrieved_sections
                    /\ \E k \in 1..Len(result) :
                          /\ result[k].kind = "formula"
                          /\ result[k].path = f
                          /\ result[k].text = NodeAt(f).content

\* one surviving hit, on an item that has a formula on either side; both
\* formulas are rendered though no hit named them
AdjacentFormulasIncludedWitness ==
    /\ returned = "result"
    /\ Cardinality(Kept) = 1
    /\ \E d \in Kept :
          /\ HitKeyed(d) /\ Resolves(HitPath(d)) /\ IsContentPath(HitPath(d))
          /\ Cardinality(FormulasNextTo(HitPath(d))) = 2
          /\ FormulasNextTo(HitPath(d)) \subseteq ResultPaths

\* C6 (as claimed): no document of the index leads to a formula node, and a
\* formula is in a result only next to a text, figure or table node resolved
\* from a surviving hit
FormulasNeverHit ==
    /\ \A doc \in vector_index :
          LET d == [metadata |-> doc, score |-> ScoreThreshold] IN
          (HitKeyed(d) /\ Resolves(HitPath(d)))
              => Get(NodeAt(HitPath(d)), "type", None) # "formula"
    /\ returned = "result" =>
          \A p \in ResultPaths :
              Get(NodeAt(p), "type", None) = "formula" =>
                  \E d \in Kept :
                     /\ HitKeyed(d)
                     /\ Siblings(HitPath(d), p)
                     /\ Resolves(HitPath(d))
                     /\ Get(NodeAt(HitPath(d)), "type", None) \in {"text", "figure", "table"}

\* C6 (amended): a formula is in a result only when a surviving hit names the
\* formula itself or names a resolving content item right before or after it
FormulasHitOrAdjacent ==
    returned = "result" =>
        \A p \in DOMAIN retrieved_sections :
            Get(retrieved_sections[p], "type", None) = "formula" =>
                \E d \in Kept :
                   /\ HitKeyed(d)
                   /\ Resolves(HitPath(d))
                   /\ HitPath(d) = p \/ Siblings(p, HitPath(d))

\* a formula rendered on account of its own hit, its neighbours not hit
FormulasHitOrAdjacentWitness ==
    /\ returned = "result"
    /\ \E d \in Kept :
          /\ HitKeyed(d)
          /\ HitPath(d) \in ResultPaths
          /\ Get(NodeAt(HitPath(d)), "type", None) = "formula"
          /\ \A e \in Kept \ {d} : ~HitKeyed(e)

\* the pair returned when no hit survives the filter (line 326)
NoRelevantPassage == <<<<>>, Empty>>

\* C7 (as claimed): "index not ready" is returned as something else than the
\* empty result of a query without a surviving hit
NotReadyDistinct == returned = "not_ready" => <<result, scroll_info>> # NoRelevantPassage

\* C8: when a surviving hit names a path that does not resolve, the call
\* still returns a result, every surviving hit whose path resolves is rendered
\* in it, and the unresolved path is not
UnresolvedPathDropped ==
    (CallDone /\ \E d \in Kept : HitKeyed(d) /\ ~Resolves(HitPath(d))) =>
        /\ returned = "result"
        /\ \A d \in Kept :
              HitKeyed(d) => (Resolves(HitPath(d)) <=> HitPath(d) \in ResultPaths)

\* the best hit names a path that does not resolve, a later one resolves and
\* is rendered
UnresolvedPathDroppedWitness ==
    /\ returned = "result"
    /\ Len(docs_with_scores) >= 2
    /\ docs_with_scores[1] \in Kept
    /\ HitKeyed(docs_with_scores[1]) /\ ~Resolves(HitPath(docs_with_scores[1]))
    /\ \E d \in Kept : HitKeyed(d) /\ Resolves(HitPath(d)) /\ HitPath(d) \in ResultPaths

-----------------------------------------------------------------------------
(* TilingProcessor (processor/tiling_processor.py)                          *)
(*                                                                          *)
(* A text is a sequence of tokens.  A token is a run of characters that     *)
(* the splitting code never cuts: a sentence (n characters, the last one a  *)
(* sentence-final mark, no blank at either end), or one of the separators   *)
(* "\n\n" (para), "\n" (newline), " " (space).  len(text) is the sum of the *)
(* tokens' lengths.  Similarities are in hundredths; a depth score is kept  *)
(* doubled (the code halves it), which changes no comparison it is used in. *)

min_length  == 500
max_length  == 2500
window_size == 3
step_size   == 1

\* range(start, min(len(elements), start + 10)) of the fallback
FallbackSpan == 10

Sentence(n, id) == [ch |-> "sentence", n |-> n, id |-> id]
ParagraphSep == [ch |-> "para", n |-> 2, id |-> 0]
LineSep == [ch |-> "newline", n |-> 1, id |-> 0]
Blank == [ch |-> "space", n |-> 1, id |-> 0]

\* len(text)
RECURSIVE PyLen(_)
PyLen(text) == IF text = <<>> THEN 0 ELSE Head(text).n + PyLen(Tail(text))

\* sep.join(elements)
RECURSIVE JoinWith(_, _)
JoinWith(elements, sep) ==
    IF elements = <<>> THEN <<>>
    ELSE IF Len(elements) = 1 THEN elements[1]
    ELSE elements[1] \o <<sep>> \o JoinWith(Tail(elements), sep)

\* '\n\n' in text
HasParagraphs(text) == \E i \in 1..Len(text) : text[i] = ParagraphSep

\* text.split('\n\n')
RECURSIVE SplitParagraphs(_)
SplitParagraphs(text) ==
    IF ~HasParagraphs(text) THEN <<text>>
    ELSE LET i == CHOOSE k \in 1..Len(text) :
                     /\ text[k] = ParagraphSep
                     /\ \A j \in 1..(k - 1) : text[j] # ParagraphSep
         IN <<SubSeq(text, 1, i - 1)>>
                \o SplitParagraphs(SubSeq(text, i + 1, Len(text)))

\* _split_into_sentences: the pieces after each sentence-final mark, stripped,
\* the empty ones dropped
RECURSIVE _split_into_sentences(_)
_split_into_sentences(text) ==
    IF text = <<>> THEN <<>>
    ELSE IF Head(text).ch = "sentence"
         THEN <<<<Head(text)>>>> \o _split_into_sentences(Tail(text))
         ELSE _split_into_sentences(Tail(text))

\* sum(len(e) for e in elements[start:i+1]), indices as in the code (from 0)
RECURSIVE CumLen(_, _, _)
CumLen(elements, start, i) ==
    IF i < start THEN 0
    ELSE PyLen(elements[i + 1]) + CumLen(elements, start, i - 1)

\* number of windows: len(range(0, len(elements) - window_size + 1, step_size))
WindowCount(n) ==
    IF n - window_size + 1 <= 0 THEN 0
    ELSE (n - window_size + 1 + step_size - 1) \div step_size

\* number of similarities _texttiling needs of the embedding model
SimilarityCount(n) ==
    IF n < window_size + 2 \/ WindowCount(n) = 0 THEN 0 ELSE WindowCount(n) - 1

\* depth_scores (lines 225-228), doubled; sims[j + 1] is similarities[j]
DepthScores(n, sims) ==
    [i \in 0..(n - 1) |->
        LET j == i - (window_size \div 2) IN
        IF j >= 1 /\ j <= Len(sims) - 2
        THEN sims[j] + sims[j + 2] - 2 * sims[j + 1]
        ELSE 0]

RECURSIVE SumOver(_, _)
SumOver(f, S) ==
    IF S = {} THEN 0
    ELSE LET x == CHOOSE y \in S : TRUE IN f[x] + SumOver(f, S \ {x})

\* score > threshold (lines 231-240): threshold is mean + 0.4 * std of the
\* positive depth scores, 0 when there is none.  With k positive scores of
\* sum S and sum of squares Q:  d > S/k + 0.4 * sqrt(Q/k - (S/k)^2)
AboveThreshold(d, depth) ==
    LET positive == {i \in DOMAIN depth : depth[i] > 0}
        k == Cardinality(positive)
        S == SumOver(depth, positive)
        Q == SumOver([i \in DOMAIN depth |-> depth[i] * depth[i]], positive)
    IN IF k = 0 THEN d > 0
       ELSE /\ k * d - S > 0
            /\ 25 * (k * d - S) * (k * d - S) > 4 * (k * Q - S * S)

PotentialBoundaries(depth) ==
    {i \in DOMAIN depth : AboveThreshold(depth[i], depth)}

Abs(x) == IF x < 0 THEN 0 - x ELSE x

\* a plausible slip: range(min(len(elements), start + 10)), from 0 on
NearestPositionFromZero(start, elements) ==
    LET last == (IF Len(elements) < start + FallbackSpan
                 THEN Len(elements) ELSE start + FallbackSpan) - 1
        off(i) == Abs(2 * CumLen(elements, 0, i) - (min_length + max_length))
    IN CHOOSE i \in 0..last :
           /\ \A j \in 0..last : off(i) <= off(j)
           /\ \A j \in 0..(i - 1) : off(j) > off(i)

\* lines 292-296: the position whose cumulative length is nearest the middle
\* of min_length and max_length, among the next FallbackSpan elements
NearestPosition(start, elements) ==
    LET last == (IF Len(elements) < start + FallbackSpan
                 THEN Len(elements) ELSE start + FallbackSpan) - 1
        off(i) == Abs(2 * CumLen(elements, start, i) - (min_length + max_length))
    IN CHOOSE i \in start..last :
           /\ \A j \in start..last : off(i) <= off(j)
           /\ \A j \in start..(i - 1) : off(j) > off(i)

_find_optimal_boundary(start, elements, potential_boundaries, depth_scores) ==
    LET n == Len(elements)
        candidate_boundaries ==
            {i \in start..(n - 1) :
                /\ i \in potential_boundaries
                /\ min_length <= CumLen(elements, start, i)
                /\ CumLen(elements, start, i) <= max_length
                /\ \A k \in start..(i - 1) : CumLen(elements, start, k) <= max_length}
    IN IF candidate_boundaries = {}
       THEN NearestPosition(start, elements)
       ELSE CHOOSE i \in candidate_boundaries :
                /\ \A j \in candidate_boundaries : depth_scores[j] <= depth_scores[i]
                /\ \A j \in candidate_boundaries :
                       j < i => depth_scores[j] < depth_scores[i]

\* the separator between the elements of one segment
SegmentSep(split_mode) == IF split_mode = "sentence" THEN Blank ELSE LineSep

\* the while loop of lines 246-255
RECURSIVE SegmentsFrom(_, _, _, _, _)
SegmentsFrom(start, elements, split_mode, potential_boundaries, depth_scores) ==
    IF start >= Len(elements) THEN <<>>
    ELSE LET optimal_boundary ==
                 _find_optimal_boundary(start, elements, potential_boundaries,
                                        depth_scores)
             segment_text ==
                 JoinWith(SubSeq(elements, start + 1, optimal_boundary + 1),
                          SegmentSep(split_mode))
         IN <<segment_text>>
                \o SegmentsFrom(optimal_boundary + 1, elements, split_mode,
                                potential_boundaries, depth_scores)

\* lines 257-263: a last segment shorter than min_length joins the one before
MergeLast(segments, split_mode) ==
    IF Len(segments) > 1 /\ PyLen(segments[Len(segments)]) < min_length
    THEN LET k == Len(segments) IN
         SubSeq(segments, 1, k - 2)
             \o <<segments[k - 1] \o <<SegmentSep(split_mode)>> \o segments[k]>>
    ELSE segments

\* _texttiling(elements, split_mode), the embedding model giving `sims`
_texttiling(elements, split_mode, sims) ==
    IF Len(elements) < window_size + 2
    THEN <<JoinWith(elements, IF split_mode = "sentence" THEN Blank ELSE ParagraphSep)>>
    ELSE LET used == SubSeq(sims, 1, SimilarityCount(Len(elements)))
             depth_scores == DepthScores(Len(elements), used)
             potential_boundaries == PotentialBoundaries(depth_scores)
         IN MergeLast(SegmentsFrom(0, elements, split_mode, potential_boundaries,
                                   depth_scores),
                      split_mode)

\* _merge_small_text_blocks: the loop of lines 155-183 from item i on, with
\* the result list and the buffer built so far (Empty is the buffer None)
AppendToBufferOverwrites(current_buffer, item) ==
    [current_buffer EXCEPT !.content = item.content]

AppendToBuffer(current_buffer, item) ==
    [current_buffer EXCEPT !.content = @ \o <<ParagraphSep>> \o item.content]

RECURSIVE MergeLoop(_, _, _, _)
MergeLoop(content, i, merged, current_buffer) ==
    IF i > Len(content)
    THEN IF current_buffer # Empty THEN Append(merged, current_buffer) ELSE merged
    ELSE LET item == content[i] IN
         IF item.type = "text"
         THEN IF PyLen(item.content) < min_length
              THEN IF current_buffer = Empty
                   THEN MergeLoop(content, i + 1, merged, item)
                   ELSE MergeLoop(content, i + 1, merged,
                                  AppendToBuffer(current_buffer, item))
              ELSE IF current_buffer # Empty
                   THEN MergeLoop(content, i + 1,
                                  Append(merged, AppendToBuffer(current_buffer, item)),
                                  Empty)
                   ELSE MergeLoop(content, i + 1, Append(merged, item), Empty)
         ELSE IF current_buffer # Empty
              THEN MergeLoop(content, i + 1,
                             Append(Append(merged, current_buffer), item), Empty)
              ELSE MergeLoop(content, i + 1, Append(merged, item), Empty)

\* a plausible slip: the content returned as it came
_merge_nothing(content) == content

_merge_small_text_blocks(content) ==
    IF content = <<>> THEN content ELSE MergeLoop(content, 1, <<>>, Empty)

\* lines 99-102: every block of the merged list gets its position and part 0
IndexedFromOne(content) ==
    [i \in 1..Len(content) |-> [index |-> i, part |-> 0] @@ content[i]]

Indexed(content) ==
    [i \in 1..Len(content) |-> [index |-> i - 1, part |-> 0] @@ content[i]]

\* line 107
Oversized(item) == item.type = "text" /\ PyLen(item.content) > max_length

\* lines 112-119
ElementsOf(item) ==
    IF HasParagraphs(item.content)
    THEN SplitParagraphs(item.content)
    ELSE _split_into_sentences(item.content)

SplitModeOf(item) == IF HasParagraphs(item.content) THEN "delimiter" ELSE "sentence"

\* lines 124-131: one block per segment, the index of the block, part i
PartNumberZero(i) == 0

PartNumber(i) == i

SplitBlocks(item, segments) ==
    [i \in 1..Len(segments) |->
        [item EXCEPT !.content = segments[i],
                     !.index = Get(item, "index", 0),
                     !.part = PartNumber(i - 1)]]

RECURSIVE SplitLoop(_, _, _)
SplitLoop(content, i, sims) ==
    IF i > Len(content) THEN <<>>
    ELSE LET item == content[i] IN
         (IF Oversized(item)
          THEN SplitBlocks(item, _texttiling(ElementsOf(item), SplitModeOf(item), sims))
          ELSE <<item>>)
             \o SplitLoop(content, i + 1, sims)

_process_content(content, sims) ==
    SplitLoop(Indexed(_merge_small_text_blocks(content)), 1, sims)

\* the embedding model is called for a block of this content
EmbedsAny(content) ==
    \E i \in 1..Len(content) :
        /\ Oversized(content[i])
        /\ Len(ElementsOf(content[i])) >= window_size + 2

\* _process_sections: abstract and references are skipped, children follow
SkippedTypes == {"abstract", "references"}

RECURSIVE _process_sections(_, _)
_process_sections(sections, sims) ==
    [k \in 1..Len(sections) |->
        LET section == sections[k] IN
        IF Get(section, "type", None) \in SkippedTypes THEN section
        ELSE [section EXCEPT
                 !.content = _process_content(@, sims),
                 !.children = _process_sections(@, sims)]]

\* the results of line 96, in the order _process_sections reaches them
RECURSIVE MergedOf(_)
MergedOf(sections) ==
    IF sections = <<>> THEN <<>>
    ELSE LET section == Head(sections) IN
         (IF Get(section, "type", None) \in SkippedTypes THEN <<>>
          ELSE <<_merge_small_text_blocks(section.content)>>
                   \o MergedOf(section.children))
             \o MergedOf(Tail(sections))

\* the content lists _process_content is given, in the same order
RECURSIVE ContentsOf(_)
ContentsOf(sections) ==
    IF sections = <<>> THEN <<>>
    ELSE LET section == Head(sections) IN
         (IF Get(section, "type", None) \in SkippedTypes THEN <<>>
          ELSE <<section.content>> \o ContentsOf(section.children))
             \o ContentsOf(Tail(sections))

-----------------------------------------------------------------------------
(* Inputs of TilingProcessor.process *)

\* a text block of sentences of the given lengths, with nothing between them
\* or with a blank line between them (paragraphs)
SentencesOf(lens, pos) == [i \in 1..Len(lens) |-> <<Sentence(lens[i], 10 * pos + i)>>]

TextBlock(lens, pos, paragraphs) ==
    [type |-> "text",
     content |-> IF paragraphs
                 THEN JoinWith(SentencesOf(lens, pos), ParagraphSep)
                 ELSE [i \in 1..Len(lens) |-> Sentence(lens[i], 10 * pos + i)]]

FigureBlock(pos) == [type |-> "figure", caption |-> <<Sentence(20, 10 * pos)>>]

\* blocks of one sentence each: shorter than min_length, between the two
\* lengths, longer than max_length; and a block that is no text
BlockKinds == {50, 80, 600, 2600, 0}

BlockOf(kind, pos) ==
    IF kind = 0 THEN FigureBlock(pos) ELSE TextBlock(<<kind>>, pos, FALSE)

BlockLists ==
    UNION {{[i \in 1..n |-> BlockOf(kinds[i], i)] : kinds \in [1..n -> BlockKinds]}
           : n \in 0..MaxBlocks}

\* one large text block of several sentences or paragraphs of 250 or 500
\* characters, the first one possibly longer than max_length by itself
ElementLengths == {250, 500}

LengthLists ==
    UNION {[1..n -> ElementLengths] : n \in (window_size + 2)..MaxElements}

LongFirst(lens) == [lens EXCEPT ![1] = 2600]

\* the large block alone, in sentences; or in paragraphs, after a figure and
\* before a text of its own
LargeBlockLists ==
    {<<TextBlock(lens, 1, FALSE)>> : lens \in LengthLists}
    \cup {<<TextBlock(LongFirst(lens), 1, FALSE)>> :
             lens \in {l \in LengthLists : l[1] = 250}}
    \cup {<<BlockOf(0, 1), TextBlock(lens, 2, TRUE), BlockOf(600, 3)>> :
             lens \in LengthLists}

TilingSection(type, content, children) ==
    [type |-> type, content |-> content, children |-> children]

\* a document of one section, and documents with an abstract, a section with
\* a subsection and a references section
FlatTilingDoc(content) ==
    [sections |-> <<TilingSection("section", content, <<>>)>>]

NestedTilingDoc(content) ==
    [sections |->
        <<TilingSection("abstract", <<BlockOf(50, 1), BlockOf(80, 2)>>, <<>>),
          TilingSection("section", <<BlockOf(50, 1), BlockOf(0, 2)>>,
                        <<TilingSection("section", content, <<>>)>>),
          TilingSection("references", <<BlockOf(2600, 1)>>, <<>>)>>]

TilingDocs ==
    {FlatTilingDoc(content) : content \in BlockLists \cup LargeBlockLists}
    \cup {NestedTilingDoc(content) : content \in {c \in BlockLists : Len(c) <= 1}}

\* cosine similarities of adjacent windows, in hundredths
SimilarityValues == {20, 50, 80}

RECURSIVE MaxOf(_)
MaxOf(S) == IF S = {} THEN 0
            ELSE LET x == CHOOSE y \in S : TRUE
                     m == MaxOf(S \ {x})
                 IN IF x > m THEN x ELSE m

\* the similarities the embedding model is asked for while `doc` is processed
SimilaritiesNeeded(doc) ==
    LET lists == MergedOf(doc.sections) IN
    MaxOf(UNION {{IF Oversized(lists[k][i])
                  THEN SimilarityCount(Len(ElementsOf(lists[k][i])))
                  ELSE 0 : i \in 1..Len(lists[k])}
                 : k \in 1..Len(lists)})

-----------------------------------------------------------------------------
(* TilingProcessor.process on one document *)

\* RagProcessor and RagRetriever not in use
NoRag == /\ paper_data = Empty
         /\ rag_tree = Empty
         /\ prev_tree = Empty
         /\ runs = 0
         /\ markdown = {}
         /\ vector_index = {}
         /\ loading_thread = "finished"
         /\ paper_vector_paths = Empty
         /\ vector_stores = Empty
         /\ load_count = 0
         /\ NoCall

ragVars == <<procVars, loadVars, callVars>>

InitTiling ==
    /\ \E doc \in TilingDocs :
          /\ data = doc
          /\ similarities \in [1..SimilaritiesNeeded(doc) -> SimilarityValues]
    /\ merged_content = <<>>
    /\ output_data = Empty
    /\ tiling = "idle"
    /\ NoRag
    /\ NoPipeline
    /\ NoSegment
    /\ NoQueue

\* process(input_path, output_path): every section processed, the file written
TilingProcess ==
    /\ tiling = "idle"
    /\ merged_content' = MergedOf(data.sections)
    /\ output_data' = [data EXCEPT !.sections = _process_sections(@, similarities)]
    /\ tiling' = "done"
    /\ UNCHANGED <<data, similarities>>
    /\ UNCHANGED ragVars
    /\ UNCHANGED pipeVars
    /\ UNCHANGED segVars
    /\ UNCHANGED queueVars

\* process(input_path, output_path) when embed_query raises (line 218) while
\* the k-th content list is split: nothing catches it, no file is written
TilingProcessRaises ==
    /\ tiling = "idle"
    /\ \E k \in 1..Len(ContentsOf(data.sections)) :
          /\ EmbedsAny(Indexed(MergedOf(data.sections)[k]))
          /\ merged_content' = SubSeq(MergedOf(data.sections), 1, k)
    /\ output_data' = Empty
    /\ tiling' = "raised"
    /\ UNCHANGED <<data, similarities>>
    /\ UNCHANGED ragVars
    /\ UNCHANGED pipeVars
    /\ UNCHANGED segVars
    /\ UNCHANGED queueVars

NextTiling == TilingProcess \/ TilingProcessRaises

SpecTiling == InitTiling /\ [][NextTiling]_vars

-----------------------------------------------------------------------------
(* Claims on TilingProcessor *)

\* the content lists read and written, in the order of merged_content
InContents == ContentsOf(data.sections)
OutContents == ContentsOf(output_data.sections)

\* positions of the output blocks made from block i of the merged list
PartsOf(out, i) == {j \in 1..Len(out) : out[j].index = i - 1}

WithinBounds(text) == min_length <= PyLen(text) /\ PyLen(text) <= max_length

\* C11 (as claimed): of the blocks made from a text block longer than
\* max_length, every one but the last has a length between min_length and
\* max_length
SegmentationBounds ==
    tiling = "done" =>
        \A k \in 1..Len(merged_content) :
            LET out == OutContents[k]
                merged == Indexed(merged_content[k])
            IN \A i \in 1..Len(merged) :
                   Oversized(merged[i]) =>
                       \A j \in PartsOf(out, i) :
                           (\E later \in PartsOf(out, i) : later > j)
                               => WithinBounds(out[j].content)

\* C12: in every content list returned by _process_content the (index, part)
\* pairs strictly increase; index is the position in the merged list, a block
\* that was not split has part 0, the pieces of a split block have its index
\* and the parts 0, 1, 2, ... in order
IndexPartOrdered ==
    tiling = "done" =>
        \A k \in 1..Len(merged_content) :
            LET out == OutContents[k]
                merged == Indexed(merged_content[k])
            IN /\ \A a, b \in 1..Len(out) :
                      a < b => \/ out[a].index < out[b].index
                               \/ /\ out[a].index = out[b].index
                                  /\ out[a].part < out[b].part
               /\ \A j \in 1..Len(out) : out[j].index \in 0..(Len(merged) - 1)
               /\ \A i \in 1..Len(merged) :
                      LET parts == PartsOf(out, i) IN
                      /\ parts # {}
                      /\ {out[j].part : j \in parts} = 0..(Cardinality(parts) - 1)
                      /\ ~Oversized(merged[i]) =>
                             /\ Cardinality(parts) = 1
                             /\ \A j \in parts : out[j] = merged[i]

\* a block split in two pieces or more, between two other blocks
IndexPartOrderedWitness ==
    /\ tiling = "done"
    /\ \E k \in 1..Len(merged_content) :
          LET out == OutContents[k] IN
          \E a, b, c, d \in 1..Len(out) :
              /\ a < b /\ b < c /\ c < d
              /\ out[a].index < out[b].index
              /\ out[b].index = out[c].index
              /\ out[b].part = 0 /\ out[c].part = 1
              /\ out[c].index < out[d].index

\* `out` is `inp` with runs of consecutive text blocks joined by paragraph
\* separators, every other block passed on as it is
RECURSIVE Regroups(_, _)
Regroups(inp, out) ==
    IF out = <<>> THEN inp = <<>>
    ELSE IF inp = <<>> THEN FALSE
    ELSE IF Head(out).type # "text"
         THEN Head(inp) = Head(out) /\ Regroups(Tail(inp), Tail(out))
         ELSE \E n \in 1..Len(inp) :
                 /\ \A t \in 1..n : inp[t].type = "text"
                 /\ Head(out).content =
                        JoinWith([t \in 1..n |-> inp[t].content], ParagraphSep)
                 /\ Regroups(SubSeq(inp, n + 1, Len(inp)), Tail(out))

\* C13: the text blocks put out by _merge_small_text_blocks, the separators
\* it inserted taken away, are the input text in order, and the blocks that
\* are no text are put out unchanged, in order, never inside a text block
MergeCorrect ==
    \A k \in 1..Len(merged_content) : Regroups(InContents[k], merged_content[k])

\* three blocks became one, next to a block that is no text
MergeCorrectWitness ==
    /\ tiling = "done"
    /\ \E k \in 1..Len(merged_content) :
          /\ Len(merged_content[k]) + 2 = Len(InContents[k])
          /\ \E i \in 1..Len(merged_content[k]) : merged_content[k][i].type # "text"

\* Scenario A: text blocks of 50, 80 and 600 characters
ScenarioA == FlatTilingDoc(<<BlockOf(50, 1), BlockOf(80, 2), BlockOf(600, 3)>>)

\* C14 (as claimed): scenario A gives one block, index 0, part 0, of 730
\* characters
ScenarioAOneBlockOf730 ==
    (data = ScenarioA /\ tiling = "done") =>
        /\ Len(OutContents[1]) = 1
        /\ OutContents[1][1].index = 0
        /\ OutContents[1][1].part = 0
        /\ PyLen(OutContents[1][1].content) = 730

\* C14 (amended): scenario A gives one block, index 0, part 0, of 734
\* characters: the three texts and the two separators between them
ScenarioAOneBlockOf734 ==
    (data = ScenarioA /\ tiling = "done") =>
        /\ Len(OutContents[1]) = 1
        /\ OutContents[1][1].index = 0
        /\ OutContents[1][1].part = 0
        /\ OutContents[1][1].type = "text"
        /\ PyLen(OutContents[1][1].content) = 50 + 80 + 600 + 2 * ParagraphSep.n

ScenarioAWitness == data = ScenarioA /\ tiling = "done"

\* Scenario B: the document is one text block of 3000 characters in
\* sentences; one depth score only is above the threshold, after sentence b,
\* and the sentences up to b and those after b are two clusters of a length
\* between min_length and max_length each
ScenarioB ==
    /\ Len(data.sections) = 1
    /\ Len(InContents[1]) = 1
    /\ LET item == InContents[1][1]
           elements == ElementsOf(item)
           n == Len(elements)
           depth == DepthScores(n, SubSeq(similarities, 1, SimilarityCount(n)))
       IN /\ item.type = "text"
          /\ PyLen(item.content) = 3000
          /\ SplitModeOf(item) = "sentence"
          /\ n >= window_size + 2
          /\ \E b \in 0..(n - 2) :
                /\ PotentialBoundaries(depth) = {b}
                /\ min_length <= CumLen(elements, 0, b)
                /\ CumLen(elements, 0, b) <= max_length
                /\ min_length <= CumLen(elements, b + 1, n - 1)
                /\ CumLen(elements, b + 1, n - 1) <= max_length

\* C15 (as claimed): scenario B gives two blocks of a length between
\* min_length and max_length, with one index and the parts 0 and 1
ScenarioBTwoSegments ==
    (ScenarioB /\ tiling = "done") =>
        LET out == OutContents[1] IN
        /\ Len(out) = 2
        /\ WithinBounds(out[1].content) /\ WithinBounds(out[2].content)
        /\ out[1].index = out[2].index
        /\ out[1].part = 0 /\ out[2].part = 1

\* C16 (as claimed): when embed_query raises for one block, the document is
\* still written, and every content list without such a block is in it as
\* _process_content returns it
EmbeddingErrorLocal ==
    tiling = "raised" =>
        /\ output_data # Empty
        /\ \A k \in 1..Len(InContents) :
               ~EmbedsAny(Indexed(_merge_small_text_blocks(InContents[k])))
                   => OutContents[k] = _process_content(InContents[k], similarities)

-----------------------------------------------------------------------------
(* RagRetriever: retrieve, retrieve_with_context and add_paper on one paper *)

InitCache ==
    /\ LET doc == RichDoc(<<"text">>)
           tree == ProcessTree(doc)
       IN /\ paper_data = doc
          /\ markdown = _generate_markdown(tree)
          /\ vector_index = IndexDocsOf(_generate_markdown(tree)) \cup ExtraDocs
          /\ rag_tree = tree
    /\ prev_tree = Empty
    /\ runs = 1
    /\ loading_thread = "running"
    /\ paper_vector_paths = Empty
    /\ vector_stores = Empty
    /\ load_count = 0
    /\ NoCall
    /\ NoTiling
    /\ NoPipeline
    /\ NoSegment
    /\ NoQueue

\* add_paper(paper_id, vector_store_path): the path is registered, the store
\* loaded and put into vector_stores whatever is there (True), or the load
\* fails (False)
add_paper ==
    /\ returned = "none"
    /\ load_count < MaxLoads
    /\ \E vector_store_path \in {LoadedPaths[paper_id]} :
          /\ paper_vector_paths' = Put(paper_vector_paths, paper_id, vector_store_path)
          /\ \/ /\ vector_stores' =
                       Put(vector_stores, paper_id,
                           load_vector_store(vector_store_path, load_count + 1))
                /\ load_count' = load_count + 1
             \/ UNCHANGED <<vector_stores, load_count>>
    /\ UNCHANGED <<vector_index, loading_thread>>
    /\ UNCHANGED procVars
    /\ UNCHANGED callVars
    /\ UNCHANGED tileVars
    /\ UNCHANGED pipeVars
    /\ UNCHANGED segVars
    /\ UNCHANGED queueVars

\* retrieve(query, paper_id, top_k): no store (the list returned is empty), or
\* the store from the cache or loaded into it and the hits of the search
retrieve ==
    /\ returned = "none"
    /\ \/ /\ paper_id \notin DOMAIN vector_stores
          /\ UNCHANGED <<vector_stores, load_count>>
          /\ docs_with_scores' = <<>>
       \/ /\ paper_id \in DOMAIN vector_stores \/ paper_id \in DOMAIN paper_vector_paths
          /\ vector_stores' = CachedOrLoaded
          /\ load_count' = IF paper_id \in DOMAIN vector_stores
                            THEN load_count ELSE load_count + 1
          /\ \E hits \in HitLists(vector_index) : docs_with_scores' = hits
    /\ returned' = "retrieved"
    /\ UNCHANGED <<section_paths, retrieved_sections, sorted_paths, result,
                   scroll_info>>
    /\ UNCHANGED <<vector_index, loading_thread, paper_vector_paths>>
    /\ UNCHANGED procVars
    /\ UNCHANGED tileVars
    /\ UNCHANGED pipeVars
    /\ UNCHANGED segVars
    /\ UNCHANGED queueVars

NextCache == \/ _on_loading_finished
             \/ add_paper
             \/ retrieve
             \/ GetVectorStore
             \/ RetrieveFails
             \/ RetrieveWithContext
             \/ TakeResult

SpecCache == InitCache /\ [][NextCache]_vars

\* C17 (as claimed): the vector index of the paper is loaded at most once, and
\* the store in vector_stores is the one loaded first
LoadedOnceNeverReplaced ==
    /\ load_count <= 1
    /\ paper_id \in DOMAIN vector_stores => vector_stores[paper_id].load = 1


-----------------------------------------------------------------------------
(* RagProcessor._generate_markdown: the headers written *)

HeadersOf(blocks) == {b.header : b \in blocks}

\* the key_map entry of key resolves to a node of the tree
EntryResolves(tree, key) == Truthy(_get_node_by_json_path(tree.key_map[key], tree))

ResolvedNode(tree, key) == _get_node_by_json_path(tree.key_map[key], tree).val

\* the node is a section, or an item with something to write: a text with
\* questions or content, a figure or a table with questions or a caption, a
\* formula with content or analysis (translated or original)
HasBody(node) ==
    LET t == Get(node, "type", None)
        Filled(field) == Get(node, field, ES) # ES
    IN \/ "summary" \in DOMAIN node
       \/ t = "text" /\ (Filled("questions") \/ Filled("translated_content")
                         \/ Filled("content"))
       \/ t \in {"figure", "table"}
          /\ (Filled("questions") \/ Filled("translated_caption") \/ Filled("caption"))
       \/ t = "formula" /\ (Filled("content") \/ Filled("formula_analysis"))

\* the tree with a key_map entry that no longer resolves, where it has one
WithStaleEntry(tree) ==
    IF tree.sections # <<>> /\ tree.sections[1].content # <<>>
    THEN Truncated(tree) ELSE tree

\* C18 (as claimed): the markdown written by process has a header for a key
\* of key_map exactly when the path of the key resolves to a node, whatever
\* the fields of the node hold
HeaderPerResolvingEntry ==
    runs >= 1 =>
        \A key \in DOMAIN rag_tree.key_map :
            key \in HeadersOf(markdown) <=> EntryResolves(rag_tree, key)

\* C18 (amended): the markdown written by process has a header for a key of
\* key_map exactly when the path of the key resolves to a node that is a
\* section or an item with something to write; a key whose path does not
\* resolve gets no header and does not stop the others from getting theirs
HeaderPerEntryWithBody ==
    runs >= 1 =>
        /\ \A key \in DOMAIN rag_tree.key_map :
              key \in HeadersOf(markdown)
              <=> EntryResolves(rag_tree, key) /\ HasBody(ResolvedNode(rag_tree, key))
        /\ LET stale == WithStaleEntry(rag_tree) IN
           \A key \in DOMAIN stale.key_map :
              key \in HeadersOf(_generate_markdown(stale))
              <=> EntryResolves(stale, key) /\ HasBody(ResolvedNode(stale, key))

\* a processed tree with an entry that got its header, an entry of an item
\* with nothing to write, and an entry of an untranslated text
HeaderPerEntryWitness ==
    /\ runs >= 1
    /\ \E key \in DOMAIN rag_tree.key_map :
          EntryResolves(rag_tree, key) /\ ~HasBody(ResolvedNode(rag_tree, key))
          /\ key \notin HeadersOf(markdown)
    /\ \E key \in DOMAIN rag_tree.key_map :
          /\ EntryResolves(rag_tree, key)
          /\ Get(ResolvedNode(rag_tree, key), "type", None) = "text"
          /\ Get(ResolvedNode(rag_tree, key), "translated_content", ES) = ES
          /\ key \in HeadersOf(markdown)
    /\ \E key \in DOMAIN WithStaleEntry(rag_tree).key_map :
          ~EntryResolves(WithStaleEntry(rag_tree), key)


-----------------------------------------------------------------------------
(* Pipeline: the loop of process over the stages and its stage cache *)

paper_name == "paper"

stage_identifiers ==
    [pdf2md |-> "", md2json |-> "_structured", json_process |-> "_processed",
     tiling |-> "_tiled", translate |-> "_translated", md_restore |-> "_restored",
     extra_info |-> "_extra_info", rag |-> "_rag"]

available_stages == {"pdf2md", "md2json", "json_process", "tiling", "translate",
                     "md_restore", "rag"}

offline_skip_stages == {"translate", "md_restore", "rag"}

\* the stages whose expected output is a dict of paths
MultiOutputStages == {"md_restore", "rag"}

\* _get_stage_output_path: a path, or a dict of paths
_get_stage_output_path(stage) ==
    LET identifier == Get(stage_identifiers, stage, "") IN
    IF stage = "pdf2md" THEN paper_name \o identifier \o ".md"
    ELSE IF stage = "md_restore"
    THEN [en |-> "final_" \o paper_name \o "_en.md",
          zh |-> "final_" \o paper_name \o "_zh.md"]
    ELSE IF stage = "rag"
    THEN [md |-> "final_" \o paper_name \o "_rag.md",
          tree_json |-> "final_" \o paper_name \o "_rag_tree.json",
          vector_store |-> "vectors"]
    ELSE paper_name \o identifier \o ".json"

ImagesDir == "images"

\* the files a stage's processor writes, in the order it creates them
WriteOrder(stage) ==
    LET expected == _get_stage_output_path(stage) IN
    IF stage = "md_restore" THEN <<expected.en, expected.zh>>
    ELSE IF stage = "rag" THEN <<expected.tree_json, expected.md, expected.vector_store>>
    ELSE <<expected>>

\* any of the outputs exists, where every one of them is asked for
FilesExistAny(stage, files) ==
    IF stage \in MultiOutputStages
    THEN LET expected_output == _get_stage_output_path(stage) IN
         \E k \in DOMAIN expected_output : expected_output[k] \in files
    ELSE _get_stage_output_path(stage) \in files

\* process: files_exist for the stages with several outputs, exists() for the rest
FilesExist(stage, files) ==
    IF stage \in MultiOutputStages
    THEN LET expected_output == _get_stage_output_path(stage) IN
         \A k \in DOMAIN expected_output : expected_output[k] \in files
    ELSE _get_stage_output_path(stage) \in files

\* the output_paths entry a stage function reads as its input; the pdf for pdf2md
StageInput(stage, paths) ==
    CASE stage = "pdf2md" -> "paper.pdf"
      [] stage = "md2json" -> Get(paths, "pdf2md", None)
      [] stage = "json_process" -> Get(paths, "md2json", None)
      [] stage = "tiling" -> Get(paths, "json_process", None)
      [] stage = "translate" -> Get(paths, "tiling", None)
      [] stage = "md_restore" -> Get(paths, "translate", None)
      [] stage = "rag" -> IF Get(paths, "extra_info", None) # None
                          THEN paths["extra_info"] ELSE Get(paths, "translate", None)
      [] OTHER -> None

\* process: final_paths collected after the loop
FinalPaths(paths, files) ==
    LET restored == IF "md_restore" \in DOMAIN paths
                    THEN [article_en |-> paths["md_restore"].en,
                          article_zh |-> paths["md_restore"].zh]
                    ELSE Empty
        ragged == IF "rag" \in DOMAIN paths
                  THEN Put(Put(Put(restored, "rag_md", paths["rag"].md),
                               "rag_tree", paths["rag"].tree_json),
                           "rag_vector_store", paths["rag"].vector_store)
                  ELSE restored
    IN IF ImagesDir \in files THEN Put(ragged, "images", ImagesDir) ELSE ragged

FilesOf(stage) == {WriteOrder(stage)[i] : i \in 1..Len(WriteOrder(stage))}

\* the index FAISS.save_local writes into the vector store directory
SavedIndex == "vectors/index.faiss"

\* what the processor of a stage leaves on the disk when it returns
Written(stage) == FilesOf(stage) \cup (IF stage = "rag" THEN {SavedIndex} ELSE {})

AllFiles == UNION {FilesOf(stage) : stage \in available_stages} \cup {ImagesDir}

DefaultStages == <<"pdf2md", "md2json", "json_process", "tiling", "translate",
                   "md_restore", "rag">>

\* Pipeline(stages): the default list, a list naming the stage that has no
\* stage function, a list without the first stage
StageLists == {DefaultStages,
               <<"pdf2md", "md2json", "json_process", "tiling", "translate",
                 "extra_info", "rag">>,
               <<"json_process", "tiling">>}

LogEntry(stage, what, input) ==
    [stage |-> stage, what |-> what, input |-> input, disk |-> disk]

InitPipeline ==
    /\ stages \in StageLists
    /\ online_mode \in BOOLEAN
    /\ disk \in SUBSET AllFiles
    /\ stage_pos = 0
    /\ output_paths = Empty
    /\ stage_log = <<>>
    /\ pipeline = "idle"
    /\ NoRag
    /\ NoTiling
    /\ NoSegment
    /\ NoQueue

\* process(pdf_path): up to the loop
ProcessBegins ==
    /\ pipeline = "idle"
    /\ pipeline' = "running"
    /\ stage_pos' = 1
    /\ output_paths' = Empty
    /\ UNCHANGED <<stages, online_mode, disk, stage_log>>
    /\ UNCHANGED ragVars
    /\ UNCHANGED tileVars
    /\ UNCHANGED segVars
    /\ UNCHANGED queueVars

InLoop == pipeline = "running" /\ stage_pos <= Len(stages)

\* `if stage not in self.available_stages: continue`
UnknownStage ==
    /\ InLoop
    /\ stages[stage_pos] \notin available_stages
    /\ stage_log' = Append(stage_log, LogEntry(stages[stage_pos], "unknown", None))
    /\ stage_pos' = stage_pos + 1
    /\ UNCHANGED <<stages, online_mode, disk, output_paths, pipeline>>
    /\ UNCHANGED ragVars
    /\ UNCHANGED tileVars
    /\ UNCHANGED segVars
    /\ UNCHANGED queueVars

\* `if not self.online_mode and stage in self.offline_skip_stages: continue`
OfflineSkip ==
    /\ InLoop
    /\ stages[stage_pos] \in available_stages
    /\ ~online_mode /\ stages[stage_pos] \in offline_skip_stages
    /\ stage_log' = Append(stage_log, LogEntry(stages[stage_pos], "offline", None))
    /\ stage_pos' = stage_pos + 1
    /\ UNCHANGED <<stages, online_mode, disk, output_paths, pipeline>>
    /\ UNCHANGED ragVars
    /\ UNCHANGED tileVars
    /\ UNCHANGED segVars
    /\ UNCHANGED queueVars

Checked(stage) == /\ stage \in available_stages
                  /\ online_mode \/ stage \notin offline_skip_stages

\* the output exists: the expected output is recorded, the stage function not called
CachedStage ==
    /\ InLoop
    /\ Checked(stages[stage_pos])
    /\ FilesExist(stages[stage_pos], disk)
    /\ output_paths' = Put(output_paths, stages[stage_pos],
                           _get_stage_output_path(stages[stage_pos]))
    /\ stage_log' = Append(stage_log, LogEntry(stages[stage_pos], "cached", None))
    /\ stage_pos' = stage_pos + 1
    /\ UNCHANGED <<stages, online_mode, disk, pipeline>>
    /\ UNCHANGED ragVars
    /\ UNCHANGED tileVars
    /\ UNCHANGED segVars
    /\ UNCHANGED queueVars

\* the stage function is called, its processor writes the output and returns
\* the path it was given
RunStage ==
    /\ InLoop
    /\ Checked(stages[stage_pos])
    /\ ~FilesExist(stages[stage_pos], disk)
    /\ StageInput(stages[stage_pos], output_paths) # None
    /\ disk' = disk \cup Written(stages[stage_pos])
    /\ output_paths' = Put(output_paths, stages[stage_pos],
                           _get_stage_output_path(stages[stage_pos]))
    /\ stage_log' = Append(stage_log,
                           LogEntry(stages[stage_pos], "ran",
                                    StageInput(stages[stage_pos], output_paths)))
    /\ stage_pos' = stage_pos + 1
    /\ UNCHANGED <<stages, online_mode, pipeline>>
    /\ UNCHANGED ragVars
    /\ UNCHANGED tileVars
    /\ UNCHANGED segVars
    /\ UNCHANGED queueVars

\* the stage function is called and raises: ValueError without an input, or
\* its processor raises having created some of the output files
StageRaises ==
    /\ InLoop
    /\ Checked(stages[stage_pos])
    /\ ~FilesExist(stages[stage_pos], disk)
    /\ IF StageInput(stages[stage_pos], output_paths) = None
       THEN UNCHANGED disk
       ELSE \E n \in 0..Len(WriteOrder(stages[stage_pos])) :
               disk' = disk \cup {WriteOrder(stages[stage_pos])[i] : i \in 1..n}
    /\ stage_log' = Append(stage_log,
                           LogEntry(stages[stage_pos], "raised",
                                    StageInput(stages[stage_pos], output_paths)))
    /\ pipeline' = "raised"
    /\ UNCHANGED <<stages, online_mode, stage_pos, output_paths>>
    /\ UNCHANGED ragVars
    /\ UNCHANGED tileVars
    /\ UNCHANGED segVars
    /\ UNCHANGED queueVars

\* after the loop: final_paths, and `return output_paths`
ProcessReturns ==
    /\ pipeline = "running"
    /\ stage_pos > Len(stages)
    /\ output_paths' = IF FinalPaths(output_paths, disk) # Empty /\ online_mode
                       THEN Put(output_paths, "final", FinalPaths(output_paths, disk))
                       ELSE output_paths
    /\ pipeline' = "returned"
    /\ UNCHANGED <<stages, online_mode, disk, stage_pos, stage_log>>
    /\ UNCHANGED ragVars
    /\ UNCHANGED tileVars
    /\ UNCHANGED segVars
    /\ UNCHANGED queueVars

NextPipeline == \/ ProcessBegins
                \/ UnknownStage
                \/ OfflineSkip
                \/ CachedStage
                \/ RunStage
                \/ StageRaises
                \/ ProcessReturns

SpecPipeline == InitPipeline /\ [][NextPipeline]_vars

\* every output file of the stage was there when the loop came to the stage
HadEveryOutput(entry) == FilesOf(entry.stage) \subseteq entry.disk

\* the entry of the stage whose output the stage of entry i reads, if the loop
\* has come to it before
ReadsFrom(i, j) ==
    /\ j < i
    /\ stage_log[j].what \in {"cached", "ran"}
    /\ StageInput(stage_log[i].stage,
                  [s \in {stage_log[j].stage} |-> _get_stage_output_path(s)]) # None

\* C19: the stage function of a stage is called only when not every expected
\* output of the stage exists, a stage whose outputs all exist is skipped with
\* its expected output recorded in output_paths, and a stage function called
\* after a skipped stage it reads from receives that expected output
StageCache ==
    \A i \in 1..Len(stage_log) :
       LET entry == stage_log[i] IN
       /\ entry.what \in {"ran", "raised"} => ~HadEveryOutput(entry)
       /\ entry.what = "cached"
          => /\ HadEveryOutput(entry)
             /\ entry.stage \in DOMAIN output_paths
             /\ output_paths[entry.stage] = _get_stage_output_path(entry.stage)
       /\ entry.what \in {"cached", "ran"} <=> entry.stage \in DOMAIN output_paths
       /\ entry.what = "ran"
          => \A j \in 1..(i - 1) :
                ReadsFrom(i, j) /\ stage_log[j].what = "cached"
                => entry.input = _get_stage_output_path(stage_log[j].stage)

\* process has returned having skipped a stage whose output existed, run the
\* stage that reads it, and run a stage of several outputs of which some, not
\* all, existed
StageCacheWitness ==
    /\ pipeline = "returned"
    /\ \E i \in 1..Len(stage_log), j \in 1..Len(stage_log) :
          /\ stage_log[i].what = "ran"
          /\ ReadsFrom(i, j)
          /\ stage_log[j].what = "cached"
    /\ \E i \in 1..Len(stage_log) :
          /\ stage_log[i].what = "ran"
          /\ stage_log[i].stage \in MultiOutputStages
          /\ FilesOf(stage_log[i].stage) \cap stage_log[i].disk # {}


-----------------------------------------------------------------------------
(* retrieve_with_context: the score filter under other thresholds *)

\* thresholds below, between and above the scores of the hits
Thresholds == {55, 60, 62, 65, 70, 75}

\* C20: for the hits of one search, the hits that survive the filter at a
\* threshold survive it at every lower threshold, so that raising the
\* threshold never increases their number; at 0.6 the filter is filtered_docs
FilterMonotone ==
    /\ FilteredAt(docs_with_scores, ScoreThreshold) = FilteredDocs(docs_with_scores)
    /\ \A low \in Thresholds, high \in Thresholds :
          low <= high
          => /\ SurvivorsAt(docs_with_scores, high) \subseteq SurvivorsAt(docs_with_scores, low)
             /\ Len(FilteredAt(docs_with_scores, high))
                <= Len(FilteredAt(docs_with_scores, low))
             /\ Len(FilteredAt(docs_with_scores, low))
                = Cardinality(SurvivorsAt(docs_with_scores, low))

\* a search has returned hits of which some, not all, survive at 0.6, and
\* fewer at a higher threshold
FilterMonotoneWitness ==
    /\ returned = "result"
    /\ Len(FilteredAt(docs_with_scores, ScoreThreshold)) < Len(docs_with_scores)
    /\ \E high \in Thresholds :
          /\ high > ScoreThreshold
          /\ Len(FilteredAt(docs_with_scores, high))
             < Len(FilteredAt(docs_with_scores, ScoreThreshold))


-----------------------------------------------------------------------------
(* retrieve_with_context: the headings of the result *)

\* the titles of the sections a path goes through, outermost first
RECURSIVE TitlesAlong(_, _)
TitlesAlong(sections, parts) ==
    IF \/ Len(parts) < 2
       \/ parts[1] \notin {SECTIONS, CHILDREN}
       \/ ~IsDigit(parts[2])
    THEN <<>>
    ELSE IF ParseInt(parts[2]) >= Len(sections) THEN <<>>
    ELSE LET section == sections[ParseInt(parts[2]) + 1] IN
         <<OrElse(section, "translated_title", "title")>>
         \o TitlesAlong(Get(section, "children", <<>>), SubSeq(parts, 3, Len(parts)))

RECURSIVE Breadcrumb(_)
Breadcrumb(titles) ==
    IF Len(titles) = 0 THEN <<>>
    ELSE IF Len(titles) = 1 THEN titles[1]
    ELSE titles[1] \o <<" > ">> \o Breadcrumb(Tail(titles))

\* the number of sections enclosing the node of a path, the node included
DepthOf(path) == Len(TitlesAlong(rag_tree.sections, Split(Tail(path))))

\* C21 (as claimed): every heading of the result is the titles of all the
\* sections enclosing its node, outermost first, joined by " > ", at any depth
HeadingIsFullBreadcrumb ==
    returned = "result" =>
        \A i \in 1..Len(result) :
            result[i].kind = "heading"
            => result[i].text
               = Breadcrumb(TitlesAlong(rag_tree.sections, Split(Tail(result[i].path))))


-----------------------------------------------------------------------------
(* TilingProcessor._texttiling: the segment loop, one turn at a time *)

\* many sentences of 100 characters and one of 2000 at the end
ManyShort(n) == [i \in 1..n |-> IF i < n THEN 100 ELSE 2000]

\* k elements of one length, then elements of another
StepList(n, k, first, rest) == [i \in 1..n |-> IF i <= k THEN first ELSE rest]

\* the lengths of the elements: a few of 250 and 500 characters, or many short
SegmentInputs ==
    {StepList(n, k, 250, 500) : n \in (window_size + 2)..MaxElements, k \in 0..MaxElements}
    \cup {ManyShort(n) : n \in (FallbackSpan + 1)..MaxSentences}

\* the similarities of the windows: any of three values for a few elements,
\* high up to some window and low from there on for many
SegmentSimilarities(n) ==
    IF n > MaxElements
    THEN {StepList(SimilarityCount(n), k, 80, 20) : k \in 0..SimilarityCount(n)}
    ELSE [1..SimilarityCount(n) -> SimilarityValues]

InitSegment ==
    /\ NoSegment
    /\ NoTiling
    /\ NoRag
    /\ NoPipeline
    /\ NoQueue

\* _texttiling(elements, split_mode) up to the loop: the windows embedded, the
\* depth scores and potential boundaries computed, start = 0
TextTilingBegins ==
    /\ tt_state = "idle"
    /\ \E lens \in SegmentInputs :
          /\ tt_elements' = SentencesOf(lens, 1)
          /\ similarities' \in SegmentSimilarities(Len(lens))
    /\ tt_depth_scores' = DepthScores(Len(tt_elements'), similarities')
    /\ tt_potential_boundaries' = PotentialBoundaries(tt_depth_scores')
    /\ tt_split_mode' = IF Len(tt_elements') > MaxElements THEN "delimiter" ELSE "sentence"
    /\ tt_state' = "loop"
    /\ tt_start' = 0
    /\ tt_segments' = <<>>
    /\ tt_boundaries' = <<>>
    /\ UNCHANGED <<data, merged_content, output_data, tiling>>
    /\ UNCHANGED ragVars
    /\ UNCHANGED pipeVars
    /\ UNCHANGED queueVars

\* one turn of `while start < len(elements)`
FindBoundary ==
    /\ tt_state = "loop"
    /\ tt_start < Len(tt_elements)
    /\ LET optimal_boundary ==
               _find_optimal_boundary(tt_start, tt_elements, tt_potential_boundaries,
                                      tt_depth_scores)
       IN /\ tt_segments' =
                 Append(tt_segments,
                        JoinWith(SubSeq(tt_elements, tt_start + 1, optimal_boundary + 1),
                                 SegmentSep(tt_split_mode)))
          /\ tt_boundaries' = Append(tt_boundaries, optimal_boundary)
          /\ tt_start' = optimal_boundary + 1
    /\ UNCHANGED <<tt_elements, tt_split_mode, tt_depth_scores,
                   tt_potential_boundaries, tt_state>>
    /\ UNCHANGED ragVars
    /\ UNCHANGED tileVars
    /\ UNCHANGED pipeVars
    /\ UNCHANGED queueVars

\* the loop is left, a short last segment joins the one before, `return segments`
TextTilingReturns ==
    /\ tt_state = "loop"
    /\ tt_start >= Len(tt_elements)
    /\ tt_segments' = MergeLast(tt_segments, tt_split_mode)
    /\ tt_state' = "returned"
    /\ UNCHANGED <<tt_elements, tt_split_mode, tt_depth_scores,
                   tt_potential_boundaries, tt_start, tt_boundaries>>
    /\ UNCHANGED ragVars
    /\ UNCHANGED tileVars
    /\ UNCHANGED pipeVars
    /\ UNCHANGED queueVars

NextSegment == \/ TextTilingBegins
               \/ FindBoundary
               \/ TextTilingReturns

SpecSegment == InitSegment /\ [][NextSegment]_vars

\* the start of the turn that returned boundary k
StartOf(k) == IF k = 1 THEN 0 ELSE tt_boundaries[k - 1] + 1

\* no potential boundary from start on lies where the accumulated length is
\* between min_length and max_length
NoCandidate(start) ==
    \A i \in start..(Len(tt_elements) - 1) :
        i \in tt_potential_boundaries
        => ~(/\ min_length <= CumLen(tt_elements, start, i)
             /\ CumLen(tt_elements, start, i) <= max_length)

\* twice the distance of the length accumulated from start to i from the middle
OffTarget(start, i) ==
    Abs(2 * CumLen(tt_elements, start, i) - (min_length + max_length))

\* C22 (as claimed): a boundary returned where there is no candidate is a
\* position, among all the remaining ones, whose accumulated length is closest
\* to the middle of min_length and max_length
FallbackIsClosestOfAll ==
    \A k \in 1..Len(tt_boundaries) :
        NoCandidate(StartOf(k))
        => \A j \in StartOf(k)..(Len(tt_elements) - 1) :
              OffTarget(StartOf(k), tt_boundaries[k]) <= OffTarget(StartOf(k), j)


\* the loop is a straight run of one thread: a turn that can be taken is taken
SpecSegmentFair == SpecSegment /\ WF_vars(NextSegment)

\* the sentences of a list of texts, in order, separators left out
RECURSIVE SentenceIds(_)
SentenceIds(texts) ==
    IF texts = <<>> THEN <<>>
    ELSE SelectSeq([i \in 1..Len(Head(texts)) |->
                       IF Head(texts)[i].ch = "sentence" THEN Head(texts)[i].id ELSE 0],
                   LAMBDA id : id # 0)
         \o SentenceIds(Tail(texts))

\* every boundary returned so far lies between the start of its turn and the
\* last element, the next turn starts right after the last boundary, and on
\* return the segments hold every element once, in order
SegmentsCover ==
    /\ \A k \in 1..Len(tt_boundaries) :
          StartOf(k) <= tt_boundaries[k] /\ tt_boundaries[k] < Len(tt_elements)
    /\ tt_state = "loop" => tt_start = StartOf(Len(tt_boundaries) + 1)
    /\ tt_state = "loop" => Len(tt_segments) = Len(tt_boundaries)
    /\ \A k \in 1..Len(tt_segments) : tt_segments[k] # <<>>
    /\ tt_state = "returned"
       => /\ tt_boundaries # <<>>
          /\ tt_boundaries[Len(tt_boundaries)] = Len(tt_elements) - 1
          /\ SentenceIds(tt_segments) = SentenceIds(tt_elements)
          /\ tt_segments = _texttiling(tt_elements, tt_split_mode, similarities)

\* C25: the segment loop of _texttiling comes to its end, and every boundary
\* _find_optimal_boundary returns is >= start and < len(elements), so that the
\* segments are consecutive, not empty and hold every element exactly once
SegmentLoopTerminates == []SegmentsCover /\ <>(tt_state = "returned")

\* _texttiling has returned several segments, one cut at a candidate boundary
\* and one by the fallback
SegmentLoopWitness ==
    /\ tt_state = "returned"
    /\ Len(tt_boundaries) >= 3
    /\ \E k \in 1..Len(tt_boundaries) : NoCandidate(StartOf(k))
    /\ \E k \in 1..Len(tt_boundaries) : ~NoCandidate(StartOf(k))


-----------------------------------------------------------------------------
(* _merge_small_text_blocks: where a short text block can stand *)

IsShortText(item) == item.type = "text" /\ PyLen(item.content) < min_length

\* C23: in the list _merge_small_text_blocks returns no text block shorter than
\* min_length stands right before another text block: a buffer of short text
\* blocks is put out together with the next text block that meets min_length,
\* or alone before a block that is no text or at the end of the list
NoShortTextBeforeText ==
    \A k \in 1..Len(merged_content) :
        LET merged == merged_content[k] IN
        \A i \in 1..Len(merged) :
            IsShortText(merged[i])
            => /\ i = Len(merged) \/ merged[i + 1].type # "text"
               /\ \E a \in 1..Len(InContents[k]), b \in 1..Len(InContents[k]) :
                     /\ a <= b
                     /\ \A t \in a..b : IsShortText(InContents[k][t])
                     /\ merged[i].content =
                            JoinWith([t \in 1..(b - a + 1) |->
                                         InContents[k][a + t - 1].content], ParagraphSep)
                     /\ b = Len(InContents[k]) \/ InContents[k][b + 1].type # "text"

\* a section whose short texts were put out with the text of 600 characters
\* that followed them, right before a short text that stands before a figure
NoShortTextBeforeTextWitness ==
    /\ tiling = "done"
    /\ \E k \in 1..Len(merged_content) :
          LET merged == merged_content[k] IN
          \E i \in 1..(Len(merged) - 2) :
              /\ merged[i].type = "text"
              /\ HasParagraphs(merged[i].content)
              /\ IsShortText(merged[i + 1])
              /\ merged[i + 2].type # "text"


-----------------------------------------------------------------------------
(* _generate_md_content: the body written for a table *)

InBody(block, text) == \E i \in 1..Len(block.body) : block.body[i] = text

\* C24 (as claimed): the block written for a table holds the questions of the
\* table, its translated caption or, that being empty, its caption, and the raw
\* content of the table
TableBodyHasRawContent ==
    runs >= 1 =>
        \A block \in markdown :
            LET node == ResolvedNode(rag_tree, block.header) IN
            Get(node, "type", None) = "table"
            => /\ InBody(block, Get(node, "questions", ES))
               /\ InBody(block, OrElse(node, "translated_caption", "caption"))
               /\ InBody(block, Get(node, "content", ES))


-----------------------------------------------------------------------------
(* _generate_key_map: one entry for each node *)

\* C26 (as claimed): the key_map of a written tree has one entry for each
\* section and each content item of the tree, no two of them sharing a key
KeyMapOneEntryPerNode ==
    rag_tree # Empty =>
        LET entries == TreeEntries(rag_tree) IN
        /\ \A i, j \in 1..Len(entries) : entries[i].key = entries[j].key => i = j
        /\ Cardinality(DOMAIN rag_tree.key_map) = Len(entries)


-----------------------------------------------------------------------------
(* DataManager: the processing queue and its one processing thread *)

Papers == {ToString(i) : i \in 1..MaxPapers}

QueueIds(queue) == [i \in 1..Len(queue) |-> queue[i].id]

\* next(i for i, item in enumerate(queue) if item['id'] == pid), from 0
IndexOfPaper(queue, pid) ==
    IF \E i \in 1..Len(queue) : queue[i].id = pid
    THEN (CHOOSE i \in 1..Len(queue) :
              /\ queue[i].id = pid
              /\ \A j \in 1..(i - 1) : queue[j].id # pid) - 1
    ELSE -1

RemoveAt(queue, index) == [i \in 1..(Len(queue) - 1) |->
                              IF i <= index THEN queue[i] ELSE queue[i + 1]]

InsertAt(queue, index, item) == [i \in 1..(Len(queue) + 1) |->
                                    IF i <= index THEN queue[i]
                                    ELSE IF i = index + 1 THEN item
                                    ELSE queue[i - 1]]

Swap(queue, a, b) == [queue EXCEPT ![a + 1] = queue[b + 1], ![b + 1] = queue[a + 1]]

\* _update_processing_queue: the paper is put at the head of the queue, moved
\* there when the queue holds it already
_update_processing_queue(queue, pid) ==
    LET index == IndexOfPaper(queue, pid)
        item == [id |-> pid, status |-> "pending"]
    IN IF index >= 0 THEN InsertAt(RemoveAt(queue, index), 0, item)
       ELSE InsertAt(queue, 0, item)

\* process_next_in_queue on a manager in state d: a thread is started for the
\* head of the queue unless the manager is paused, processing, or has none
process_next_in_queue(d) ==
    IF d.is_paused \/ d.is_processing \/ d.processing_queue = <<>> THEN d
    ELSE [d EXCEPT !.is_processing = TRUE,
                   !.processing_queue[1].status = "processing",
                   !.current_thread = d.processing_queue[1].id,
                   !.thread_running = TRUE]

Manager == [processing_queue |-> processing_queue, is_processing |-> is_processing,
            is_paused |-> is_paused, current_thread |-> current_thread,
            thread_running |-> thread_running]

\* the fields of the manager become those of d
Becomes(d) ==
    /\ processing_queue' = d.processing_queue
    /\ is_processing' = d.is_processing
    /\ is_paused' = d.is_paused
    /\ current_thread' = d.current_thread
    /\ thread_running' = d.thread_running

OtherThanQueue == <<ragVars, tileVars, pipeVars, segVars>>

InitQueue == NoQueue /\ NoSegment /\ NoTiling /\ NoRag /\ NoPipeline

\* upload_file(file_path) of an existing file named after pid
upload_file(pid) ==
    LET d == [Manager EXCEPT !.processing_queue =
                                 _update_processing_queue(processing_queue, pid)]
    IN /\ Becomes(IF ~is_paused THEN process_next_in_queue(d) ELSE d)
       /\ UNCHANGED <<signal, papers_index>>
       /\ UNCHANGED OtherThanQueue

\* reorder_processing_queue(pid, direction), the calls that return True
reorder_processing_queue(pid, direction) ==
    LET index == IndexOfPaper(processing_queue, pid)
        min_index == IF is_processing THEN 1 ELSE 0
    IN /\ processing_queue # <<>>
       /\ index >= 0
       /\ ~(is_processing /\ index = 0)
       /\ \/ /\ direction = "up"
             /\ index > min_index
             /\ processing_queue' = Swap(processing_queue, index - 1, index)
          \/ /\ direction = "down"
             /\ index < Len(processing_queue) - 1
             /\ processing_queue' = Swap(processing_queue, index + 1, index)
          \/ /\ direction = "top"
             /\ index # min_index
             /\ processing_queue' = InsertAt(RemoveAt(processing_queue, index), min_index,
                                             processing_queue[index + 1])
       /\ UNCHANGED <<is_processing, is_paused, current_thread, thread_running, signal,
                    papers_index>>
       /\ UNCHANGED OtherThanQueue

pause_processing ==
    /\ is_paused' = TRUE
    /\ UNCHANGED <<processing_queue, is_processing, current_thread, thread_running, signal,
                 papers_index>>
    /\ UNCHANGED OtherThanQueue

resume_processing ==
    LET d == [Manager EXCEPT !.is_paused = FALSE]
    IN /\ Becomes(IF ~is_processing THEN process_next_in_queue(d) ELSE d)
       /\ UNCHANGED <<signal, papers_index>>
       /\ UNCHANGED OtherThanQueue

\* ProcessingThread.run ends: pipeline.process returned, or raised, and the
\* thread emits the signal of that outcome with the stem of its pdf
ThreadEmits(outcome) ==
    /\ thread_running
    /\ thread_running' = FALSE
    /\ signal' = <<[outcome |-> outcome, paper_id |-> current_thread]>>
    /\ UNCHANGED <<processing_queue, is_processing, is_paused, current_thread, papers_index>>
    /\ UNCHANGED OtherThanQueue

\* on_processing_finished(pid), run for the signal of the thread
on_processing_finished ==
    /\ signal # <<>>
    /\ signal[1].outcome = "finished"
    /\ LET d == [Manager EXCEPT !.is_processing = FALSE,
                                !.processing_queue =
                                    IF processing_queue # <<>> THEN Tail(processing_queue)
                                    ELSE processing_queue]
       IN Becomes(IF ~is_paused THEN process_next_in_queue(d) ELSE d)
    /\ signal' = <<>>
    /\ papers_index' = papers_index \cup {signal[1].paper_id}
    /\ UNCHANGED OtherThanQueue

\* on_processing_error(pid, error_msg), run for the signal of the thread
on_processing_error ==
    /\ signal # <<>>
    /\ signal[1].outcome = "error"
    /\ IF ~is_processing THEN Becomes(Manager)
       ELSE LET d == [Manager EXCEPT !.is_processing = FALSE,
                                     !.processing_queue =
                                         IF processing_queue # <<>> THEN Tail(processing_queue)
                                         ELSE processing_queue]
            IN Becomes(IF ~is_paused THEN process_next_in_queue(d) ELSE d)
    /\ signal' = <<>>
    /\ UNCHANGED papers_index
    /\ UNCHANGED OtherThanQueue

NextQueue == \/ \E pid \in Papers : upload_file(pid)
             \/ \E pid \in Papers, direction \in {"up", "down", "top"} :
                    reorder_processing_queue(pid, direction)
             \/ pause_processing
             \/ resume_processing
             \/ \E outcome \in {"finished", "error"} : ThreadEmits(outcome)
             \/ on_processing_finished
             \/ on_processing_error

SpecQueue == InitQueue /\ [][NextQueue]_vars

\* the paper the manager is processing: the one current_thread was started for
\* and whose completion has not been handled
Processed == current_thread

\* C27 (as claimed): while is_processing is set the head of processing_queue is
\* the paper current_thread is processing, and the handler of a completion
\* removes that paper from the queue and no other
HeadIsProcessedPaper ==
    /\ [](is_processing => /\ processing_queue # <<>>
                           /\ processing_queue[1].id = Processed)
    /\ [][on_processing_finished \/ (on_processing_error /\ is_processing)
          => LET ids == QueueIds(processing_queue)
             IN QueueIds(processing_queue') =
                    SelectSeq(ids, LAMBDA id : id # signal[1].paper_id)]_vars


-----------------------------------------------------------------------------
(* Pipeline.process called again on the paper: the rag stage and its outputs *)

\* the full pipeline online, on a paper whose rag stage has not yet been run
InitRagStage ==
    /\ stages = DefaultStages
    /\ online_mode = TRUE
    /\ disk \in SUBSET (AllFiles \ FilesOf("rag"))
    /\ stage_pos = 0
    /\ output_paths = Empty
    /\ stage_log = <<>>
    /\ pipeline = "idle"
    /\ NoRag
    /\ NoTiling
    /\ NoSegment
    /\ NoQueue

Calls == Cardinality({i \in 1..Len(stage_log) : stage_log[i].what = "called"})

\* process has returned or raised, and is called on the same paper once more
ProcessAgain ==
    /\ pipeline \in {"returned", "raised"}
    /\ Calls + 1 < MaxCalls
    /\ pipeline' = "idle"
    /\ stage_log' = Append(stage_log, LogEntry(None, "called", None))
    /\ UNCHANGED <<stages, online_mode, disk, stage_pos, output_paths>>
    /\ UNCHANGED ragVars
    /\ UNCHANGED tileVars
    /\ UNCHANGED segVars
    /\ UNCHANGED queueVars

NextRagStage == \/ ProcessBegins
                \/ CachedStage
                \/ RunStage
                \/ StageRaises
                \/ ProcessReturns
                \/ ProcessAgain

SpecRagStage == InitRagStage /\ [][NextRagStage]_vars

IsRag(entry, what) == entry.stage = "rag" /\ entry.what = what

\* C28 (as claimed): when process skips the rag stage for its outputs being
\* there, the vector index has been saved, and after a rag stage that raised
\* the next call of process runs the rag stage again
SkippedRagHasIndex ==
    /\ \A i \in 1..Len(stage_log) :
          IsRag(stage_log[i], "cached") => SavedIndex \in stage_log[i].disk
    /\ \A i \in 1..Len(stage_log), j \in 1..Len(stage_log) :
          i < j /\ IsRag(stage_log[i], "raised") /\ stage_log[j].stage = "rag"
          => stage_log[j].what \in {"ran", "raised"}


-----------------------------------------------------------------------------
(* add_paper and the callback of the loading thread *)

\* add_paper has registered the path of the paper and loaded its store
AddedPaper == /\ paper_id \in DOMAIN vector_stores
              /\ paper_id \in DOMAIN paper_vector_paths

\* C29 (as claimed): once add_paper has returned True for the paper, no step
\* takes the paper out of paper_vector_paths nor makes is_ready false, the
\* callback of the loading thread included
AddedPaperStays ==
    [][AddedPaper => /\ paper_id \in DOMAIN paper_vector_paths'
                     /\ paper_vector_paths' # Empty]_vars


-----------------------------------------------------------------------------
(* retrieve_with_context: a result without a node *)

\* C30 (as claimed): a result that is not the empty string holds the heading
\* of at least one node, and when no path of a surviving hit resolves to a
\* node the result is the empty string and there is no scroll locator
ResultHasHeading ==
    returned \notin {"none", "searching"} =>
        /\ result # <<>> => Headings # <<>>
        /\ retrieved_sections = Empty => result = <<>> /\ scroll_info = Empty

=============================================================================
